---------------------------- MODULE Spec2Model ----------------------------
(***************************************************************************)
(* A model of the collection / decimals-resolution / alert / broadcast     *)
(* core of the IBC monitor (roomit-xyz/ibc-monitoring).                    *)
(*                                                                         *)
(*   SpecCollect  : WalletBalanceService - start(), the single-flight      *)
(*                  collection cycle, its retries and the circuit breaker  *)
(*   SpecResolve  : WalletBalanceService.getTokenDecimals and its tiers    *)
(*   SpecAlert    : AlertManager.processAlert and its deduplication map    *)
(*   SpecHub      : the WebSocket hub's subscription handling              *)
(*   SpecCast     : the hub's broadcasts                                   *)
(*   SpecHeartbeat: the hub's heartbeat and its stale connections          *)
(*   SpecGate     : the per-user gate of sendNotifications                 *)
(*   SpecMetrics  : MetricsCollector's periodic collection                 *)
(*   SpecStart    : WalletBalanceService.start() and its wait for the      *)
(*                  metrics endpoint                                       *)
(*   SpecBatch    : the batches of a collection cycle                      *)
(*   SpecPersist  : the storage of wallets, balances and their history     *)
(*   SpecTable    : the alert_history table and its cleanup                *)
(*   SpecStop     : start() and stop() called in any order                 *)
(*   SpecPush     : the hub's broadcasts with those of the wallet services *)
(*   SpecMonitor  : WalletMonitor's low-balance alerts                     *)
(*   SpecSlowBeat : the hub's heartbeat with a period of 90 s              *)
(*                                                                         *)
(* JavaScript runs each handler to its next await without interruption, so *)
(* one action is the code between two awaits.  Time is in milliseconds.    *)
(***************************************************************************)
EXTENDS Integers, Sequences, FiniteSets, Bags, TLC

VARIABLES
    \* ---- WalletBalanceService (collection orchestrator) ----
    now,              \* Date.now(), counted from Epoch
    isRunning,        \* this.isRunning
    intervalId,       \* this.intervalId is set (the periodic timer is installed)
    startPc,          \* position of start(): "new", "gating", "initial", "started"
    gate,             \* waitForMetricsEndpoint: when it began, how long it took, what it returned
    isCollecting,     \* this.isCollecting
    errorCount,       \* this.errorCount
    lastFailureTime,  \* this.lastFailureTime (0 = undefined)
    cpc,              \* per caller: position inside collectAndProcessBalances
    retryCount,       \* per caller: the local retryCount of its cycle
    strategy,         \* per caller: index i into timeoutStrategies
    http,             \* callers with an HTTP request to the metrics endpoint on the wire
    requestTimeout,   \* this.requestTimeout
    fetch,            \* per caller, the locals of fetchWalletBalanceMetricsWithRetry:
                      \*   base     timeoutStrategies[0]
                      \*   original originalTimeout of the iteration
                      \*   budget   the timeout its request on the wire was issued with
    slept,            \* per caller: the backoff delay of the cycle's last retry (0 = none)
    ev,               \* the operation the last step performed and what it returned
    attempts,         \* history: fetchWalletBalanceMetricsWithRetry calls of the caller's cycle
    consecFails,      \* history: failed attempts since the last successful collection
    lastFailAt,       \* history: time of the most recent failed attempt (-1 = none)
    lastCycleEnd,     \* history: how the most recently ended cycle ended
    \* ---- WebSocket hub ----
    clients,          \* the registry: clientId -> [role, subscriptions, lastPing]
    sockets,          \* clientIds whose socket has not emitted 'close' yet
    closing,          \* those of them whose readyState is no longer OPEN
    silent,           \* those of them whose peer has stopped answering for good
    cast,             \* the broadcasts of the last step and the sends that threw
    beatAt,           \* when the heartbeat timer was set or last fired
    sent,             \* the frames the last step sent: a set of [to, frame]
    received,         \* the last message a socket delivered to the hub
    \* ---- AlertManager ----
    alertHistory,     \* this.alertHistory: alert key -> time last sent (0 = no entry)
    alertRows,        \* the alerts table: the alerts db.saveAlert stored, in order
    aframes,          \* the processAlert invocations in flight (a bag of frames):
                      \*   pc        where the invocation is waiting
                      \*   alert     the alert it processes
                      \*   start     the local now
                      \*   i         the user whose POST is awaited (0 = none)
                      \*   delivered history: a POST of this invocation succeeded
    dispatchLog,      \* history: the dispatches made, [key, at] with at = the local now
    submitted,        \* history: number of processAlert calls so far
    aev,              \* the step the alert manager last took and what it returned
    \* ---- Decimal resolver (getTokenDecimals) ----
    tokenDecimals,    \* the token_decimals table: key -> decimals (Null = no row)
    calls,            \* the getTokenDecimals invocations in flight (a bag of frames):
                      \*   pc       where the invocation is waiting
                      \*   key      <<chainId, denom>>
                      \*   decimals the local decimals awaiting the save
                      \*   net      has it made an external network call
                      \*   seq      history: a call of its key had returned when it
                      \*            began and none has returned since
                      \*   stored   history: its read-check succeeded on a cache that
                      \*            held the value the call before it returned
    prevResult,       \* history, per key: what the last returned call returned
    rev,              \* the step the resolver last took, with what a call returned
    \* ---- Notification gate (sendNotifications loop body) ----
    gev,              \* the loop body last run: the user row, the alert, what it did
    \* ---- MetricsCollector ----
    started,          \* start() has scheduled the cron task
    lastMetrics,      \* source id -> time of the last successful collection (0 = none)
    mruns,            \* the firings of the cron callback in flight (a bag)
    mev,              \* what the collector did last
    pollStart,        \* history: source id -> when its last collection began (0 = none)
    \* ---- WalletBalanceService (the batches of a cycle) ----
    bpc,              \* position of the cycle after its fetch
    balances,         \* balances.length: the metrics lines fetched (0 = none yet)
    bi,               \* the loop variable i of the batch loop
    processedBalances,\* the local processedBalances: records, in order
    bk,               \* updateBalancesInDatabase: the turn of its loop (0 = not begun)
    persisted,        \* records whose wallet and balance have been written
    failures,         \* the per-item failures logged: [record, stage]
    \* ---- Storage of wallets and balances ----
    walletAddresses,  \* the wallet_addresses table: its rows, in order of id
    walletBalances,   \* the wallet_balances table: a set of rows
    balanceHistory,   \* the balance_history table: its rows, in order; "stored" is
                      \*   history: the value the table held when the update wrote
    writes,           \* per writer, the record it persists:
                      \*   pc         the statement it awaits
                      \*   wallet     (chain, account) of the record
                      \*   balance    the value of the record
                      \*   walletId   the id found or created
                      \*   oldBalance the local oldBalance of updateWalletBalance
                      \*   stored     history: the value the table held when it wrote
    updates,          \* history: records the writers have turned to
    \* ---- Storage of alerts ----
    alertTable,       \* the alert_history table: a set of rows
    alertSeq,         \* its AUTOINCREMENT counter: the id given last
    today,            \* the date, in days
    \* ---- WalletMonitor ----
    monPc,            \* "idle", or "alerting" inside checkLowBalanceAlerts
    lowQueue,         \* the rows of getLowBalanceAlerts the loop has yet to take
    cycles,           \* the number of collection cycles begun
    lastWalletAlert   \* history: per wallet, the time of its latest wallet_alert
                      \* sent to a connection, 0 when there is none

svc == <<isRunning, intervalId, startPc, gate>>
brk == <<errorCount, lastFailureTime, consecFails, lastFailAt>>
cyc == <<isCollecting, cpc, retryCount, strategy, http, attempts, requestTimeout, fetch, slept>>
cvars == <<now, svc, brk, cyc, ev, lastCycleEnd>>

hvars == <<clients, sockets, closing, silent, cast, beatAt, sent, received>>

avars == <<alertHistory, alertRows, aframes, dispatchLog, submitted, aev>>

rvars == <<tokenDecimals, calls, prevResult, rev>>

gvars == <<gev>>
mvars == <<started, lastMetrics, mruns, mev, pollStart>>
bvars == <<bpc, balances, bi, processedBalances, bk, persisted, failures>>
pvars == <<walletAddresses, walletBalances, balanceHistory, writes, updates>>
tvars == <<alertTable, alertSeq, today>>
wvars == <<monPc, lowQueue, cycles, lastWalletAlert>>

vars == <<cvars, hvars, avars, rvars, gvars, mvars, bvars, pvars, tvars, wvars>>

\* What the actions of one component leave alone
notCollect == <<hvars, avars, rvars, gvars, mvars, bvars, pvars, tvars, wvars>>
notHub == <<cvars, avars, rvars, gvars, mvars, bvars, pvars, tvars, wvars>>
notAlert == <<now, svc, brk, cyc, ev, lastCycleEnd, hvars, rvars, gvars, mvars, bvars, pvars, tvars, wvars>>
notResolve == <<cvars, hvars, avars, gvars, mvars, bvars, pvars, tvars, wvars>>
notGate == <<cvars, hvars, avars, rvars, mvars, bvars, pvars, tvars, wvars>>
notMetrics == <<cvars, hvars, avars, rvars, gvars, bvars, pvars, tvars, wvars>>
notBatch == <<cvars, hvars, avars, rvars, gvars, mvars, pvars, tvars, wvars>>
notPersist == <<cvars, hvars, avars, rvars, gvars, mvars, bvars, tvars, wvars>>
notTable == <<cvars, hvars, avars, rvars, gvars, mvars, bvars, pvars, wvars>>

---------------------------------------------------------------------------
(* Program constants                                                       *)

MaxRetries == 3
FailureThreshold == 5
TimeWindow == 300000
NumTimeoutStrategies == 3

(* Bounds of the model                                                     *)

MaxTime == 600000
Epoch == 1000000
MaxErrors == 8
MaxClients == 2
MaxAlertProcs == 2
MaxAlerts == 2
MaxTasks == 2
MaxBeats == 3
MaxSources == 2
MaxRuns == 2
MaxFirings == 4
MaxBackoffSteps == 10
MaxRecords == 11
MaxFailures == 2
MaxUpdates == 3
MaxRows == 2
MaxDayTicks == 3
MaxCycles == 2

\* Amounts by which the clock advances between two steps: half the breaker
\* window and one millisecond less, so that ages of exactly TimeWindow - 1 and
\* TimeWindow both occur.
TimeSteps == {TimeWindow \div 2, (TimeWindow \div 2) - 1}

\* Who calls collectAndProcessBalances: start()'s initial collection, the
\* setInterval callback, the wallet-balance route, and getFormattedBalances.
Callers == {"startup", "timer", "api", "formatted"}

\* An event: the operation, the caller it ran for, and the value it returned to
\* that caller ("none" while the call is still awaiting).
Event(op, who, r) == [op |-> op, who |-> who, ret |-> r]
NoEvent == Event("none", "none", "none")

---------------------------------------------------------------------------
(* WalletBalanceService                                                    *)

\* The constructor: requestTimeout, backoffMultiplier, maxBackoffInterval (s)
RequestTimeout == 10000
BackoffMultiplier == 2
MaxBackoffInterval == 300

\* Timeout budgets that do not escalate
TimeoutStrategy_Flat(base, i) == base

\* timeoutStrategies[i] = [requestTimeout, requestTimeout * 2, requestTimeout * 3][i]
TimeoutStrategy(base, i) == base * (i + 1)

\* A backoff that does not grow
BackoffTime_Constant(rc) == 1000

\* backoffTime after the retryCount-th failure of a cycle
BackoffTime(rc) ==
    IF 1000 * BackoffMultiplier ^ (rc - 1) < MaxBackoffInterval * 1000
    THEN 1000 * BackoffMultiplier ^ (rc - 1)
    ELSE MaxBackoffInterval * 1000

NoFetch == [base |-> 0, original |-> 0, budget |-> 0]

\* Iteration i of the loop of fetchWalletBalanceMetricsWithRetry up to its
\* await: originalTimeout is taken, this.requestTimeout becomes
\* timeoutStrategies[i] and the request is issued with it
IssueRequest(c, base, i) ==
    /\ requestTimeout' = TimeoutStrategy(base, i)
    /\ fetch' = [fetch EXCEPT ![c] = [base |-> base, original |-> requestTimeout,
                                      budget |-> TimeoutStrategy(base, i)]]
    /\ http' = http \cup {c}

InitCollect ==
    /\ now = Epoch
    /\ isRunning = FALSE
    /\ intervalId = FALSE
    /\ startPc = "new"
    /\ gate = [since |-> -1, waited |-> -1, ready |-> FALSE]
    /\ isCollecting = FALSE
    /\ errorCount = 0
    /\ lastFailureTime = 0
    /\ cpc = [c \in Callers |-> "idle"]
    /\ retryCount = [c \in Callers |-> 0]
    /\ strategy = [c \in Callers |-> 0]
    /\ http = {}
    /\ requestTimeout = RequestTimeout
    /\ fetch = [c \in Callers |-> NoFetch]
    /\ slept = [c \in Callers |-> 0]
    /\ ev = NoEvent
    /\ attempts = [c \in Callers |-> 0]
    /\ consecFails = 0
    /\ lastFailAt = -1
    /\ lastCycleEnd = "none"

\* isCircuitBreakerOpen() without the test of the time since the last failure
IsCircuitBreakerOpen_NoWindow == errorCount >= FailureThreshold

\* isCircuitBreakerOpen()
IsCircuitBreakerOpen ==
    IF errorCount >= FailureThreshold
    THEN now - lastFailureTime < TimeWindow
    ELSE FALSE

\* resetErrorCount(): the value of this.errorCount afterwards
ResetErrorCount(n) == IF n > 0 THEN 0 ELSE n

\* The loop test off by one
LoopContinues_OffByOne(rc) == rc <= MaxRetries + 1

\* while (retryCount <= this.maxRetries)
LoopContinues(rc) == rc <= MaxRetries

\* A cycle of caller c is executing
InCycle(c) == cpc[c] # "idle"
InFlight == \E c \in Callers : InCycle(c)

\* The call of caller c returns: its frame (retryCount, i) is gone
Return(c) ==
    /\ cpc' = [cpc EXCEPT ![c] = "idle"]
    /\ retryCount' = [retryCount EXCEPT ![c] = 0]
    /\ strategy' = [strategy EXCEPT ![c] = 0]
    /\ attempts' = [attempts EXCEPT ![c] = 0]
    /\ fetch' = [fetch EXCEPT ![c] = NoFetch]
    /\ slept' = [slept EXCEPT ![c] = 0]

\* collectAndProcessBalances() without the test of this.isCollecting
CollectAndProcessBalances_NoMutex(c) ==
    /\ cpc[c] = "idle"
    /\ isCollecting' = TRUE
    /\ retryCount' = [retryCount EXCEPT ![c] = 0]
    /\ cpc' = [cpc EXCEPT ![c] = "http"]
    /\ strategy' = [strategy EXCEPT ![c] = 0]
    /\ IssueRequest(c, requestTimeout, 0)
    /\ attempts' = [attempts EXCEPT ![c] = 1]
    /\ ev' = Event("call", c, "none")
    /\ UNCHANGED slept

\* collectAndProcessBalances(): from the call to the first await.  The mutex
\* test and the assignment of the flag run without an await between them;
\* fetchWalletBalanceMetricsWithRetry() issues the first strategy's axios.get
\* before it awaits.
CollectAndProcessBalances(c) ==
    IF isCollecting
    THEN /\ ev' = Event("call", c, "empty")
         /\ UNCHANGED cyc
    ELSE /\ cpc[c] = "idle"
         /\ isCollecting' = TRUE
         /\ retryCount' = [retryCount EXCEPT ![c] = 0]
         /\ cpc' = [cpc EXCEPT ![c] = "http"]
         /\ strategy' = [strategy EXCEPT ![c] = 0]
         /\ IssueRequest(c, requestTimeout, 0)
         /\ attempts' = [attempts EXCEPT ![c] = 1]
         /\ ev' = Event("call", c, "none")
         /\ UNCHANGED slept

\* Time passes
Tick(d) ==
    /\ UNCHANGED notCollect
    /\ now + d <= Epoch + MaxTime
    /\ now' = now + d
    /\ ev' = Event("tick", "none", "none")
    /\ UNCHANGED <<svc, brk, cyc, lastCycleEnd>>

\* start(): up to the awaits of initializeDatabaseTables / waitForMetricsEndpoint
Start ==
    /\ UNCHANGED notCollect
    /\ ~isRunning
    /\ startPc = "new"
    /\ isRunning' = TRUE
    /\ startPc' = "gating"
    /\ ev' = Event("start", "none", "none")
    /\ UNCHANGED <<now, intervalId, gate, brk, cyc, lastCycleEnd>>

\* stop(): clearInterval when an interval is installed; this.isRunning = false.
\* A call of start() that is waiting at one of its awaits goes on afterwards.
Stop ==
    /\ UNCHANGED notCollect
    /\ intervalId' = FALSE
    /\ isRunning' = FALSE
    /\ startPc' = IF startPc = "started" THEN "new" ELSE startPc
    /\ ev' = Event("stop", "none", "none")
    /\ UNCHANGED <<now, gate, brk, cyc, lastCycleEnd>>

\* start(): waitForMetricsEndpoint() has returned isReady
GatingDone(isReady) ==
    /\ UNCHANGED notCollect
    /\ startPc = "gating"
    /\ IF isReady
       THEN /\ CollectAndProcessBalances("startup")
            /\ startPc' = "initial"
            /\ UNCHANGED intervalId
       ELSE /\ startPc' = "started"
            /\ intervalId' = TRUE
            /\ ev' = Event("interval", "none", "none")
            /\ UNCHANGED cyc
    /\ UNCHANGED <<now, isRunning, gate, brk, lastCycleEnd>>

\* start(): the initial collection has returned; setInterval
InstallInterval ==
    /\ UNCHANGED notCollect
    /\ startPc = "initial"
    /\ cpc["startup"] = "idle"
    /\ startPc' = "started"
    /\ intervalId' = TRUE
    /\ ev' = Event("interval", "none", "none")
    /\ UNCHANGED <<now, isRunning, gate, brk, cyc, lastCycleEnd>>

\* The setInterval callback
TimerTick ==
    /\ UNCHANGED notCollect
    /\ intervalId
    /\ CollectAndProcessBalances("timer")
    /\ UNCHANGED <<now, svc, brk, lastCycleEnd>>

\* The wallet-balance route calling collectAndProcessBalances() directly
ApiCollect ==
    /\ UNCHANGED notCollect
    /\ CollectAndProcessBalances("api")
    /\ UNCHANGED <<now, svc, brk, lastCycleEnd>>

\* getFormattedBalances()
GetFormattedBalances ==
    /\ UNCHANGED notCollect
    /\ IF IsCircuitBreakerOpen
       THEN /\ ev' = Event("breaker", "formatted", "cached")
            /\ UNCHANGED cyc
       ELSE CollectAndProcessBalances("formatted")
    /\ UNCHANGED <<now, svc, brk, lastCycleEnd>>

\* The code after the while loop, returning without clearing this.isCollecting
ExhaustedReturn_KeepsFlag(c) ==
    /\ UNCHANGED isCollecting
    /\ Return(c)
    /\ lastCycleEnd' = "exhausted"
    /\ ev' = Event("exhausted", c, "empty")

\* The code after the while loop: all retries are used up
ExhaustedReturn(c) ==
    /\ isCollecting' = FALSE
    /\ Return(c)
    /\ lastCycleEnd' = "exhausted"
    /\ ev' = Event("exhausted", c, "empty")

\* Why a request of fetchWalletBalanceMetrics rejects: the timeout or the
\* abort, a response with status 401 or 403, ECONNREFUSED, a body that is no
\* string
FetchFailures == {"timeout", "unauthorized", "refused", "malformed"}

\* The catch block of the while loop: an attempt has thrown
CatchAttemptError(c, cause) ==
    /\ errorCount' = errorCount + 1
    /\ lastFailureTime' = now
    /\ consecFails' = consecFails + 1
    /\ lastFailAt' = now
    /\ IF LoopContinues(retryCount[c] + 1)
       THEN /\ retryCount' = [retryCount EXCEPT ![c] = @ + 1]
            /\ cpc' = [cpc EXCEPT ![c] = "backoff"]
            /\ ev' = Event("retry", c, cause)
            /\ slept' = [slept EXCEPT ![c] = BackoffTime(retryCount[c] + 1)]
            /\ UNCHANGED <<isCollecting, strategy, attempts, fetch, lastCycleEnd>>
       ELSE ExhaustedReturn(c)

\* fetchWalletBalanceMetrics() rejects (timeout, refused, HTTP status, bad format)
HttpFail(c) ==
    /\ UNCHANGED notCollect
    /\ cpc[c] = "http"
    /\ c \in http
    /\ errorCount < MaxErrors
    /\ http' = http \ {c}
    /\ requestTimeout' = fetch[c].base
    /\ \E cause \in FetchFailures :
          IF strategy[c] < NumTimeoutStrategies - 1
            THEN /\ cpc' = [cpc EXCEPT ![c] = "stratSleep"]
                 /\ ev' = Event("httpfail", c, cause)
                 /\ UNCHANGED <<isCollecting, retryCount, strategy, attempts, fetch,
                                slept, brk, lastCycleEnd>>
            ELSE CatchAttemptError(c, cause)
    /\ UNCHANGED <<now, svc>>

\* fetchWalletBalanceMetrics() resolves with no wallet_balance line:
\* resetErrorCount(); return []
HttpEmpty(c) ==
    /\ UNCHANGED notCollect
    /\ cpc[c] = "http"
    /\ c \in http
    /\ http' = http \ {c}
    /\ requestTimeout' = fetch[c].original
    /\ errorCount' = ResetErrorCount(errorCount)
    /\ consecFails' = 0
    /\ Return(c)
    /\ lastCycleEnd' = "empty"
    /\ ev' = Event("nodata", c, "empty")
    /\ UNCHANGED <<now, svc, isCollecting, lastFailureTime, lastFailAt>>

\* fetchWalletBalanceMetrics() resolves with balances: batch processing starts
HttpData(c) ==
    /\ UNCHANGED notCollect
    /\ cpc[c] = "http"
    /\ c \in http
    /\ http' = http \ {c}
    /\ requestTimeout' = fetch[c].original
    /\ cpc' = [cpc EXCEPT ![c] = "processing"]
    /\ ev' = Event("data", c, "none")
    /\ UNCHANGED <<now, svc, brk, isCollecting, retryCount, strategy, attempts,
                   fetch, slept, lastCycleEnd>>

\* fetchWalletBalanceMetricsWithRetry(): sleep(500) is over, next timeout strategy
StrategySleepDone(c) ==
    /\ UNCHANGED notCollect
    /\ cpc[c] = "stratSleep"
    /\ strategy' = [strategy EXCEPT ![c] = @ + 1]
    /\ cpc' = [cpc EXCEPT ![c] = "http"]
    /\ IssueRequest(c, fetch[c].base, strategy[c] + 1)
    /\ ev' = Event("strategy", c, "none")
    /\ UNCHANGED <<now, svc, brk, isCollecting, retryCount, attempts, slept, lastCycleEnd>>

\* The backoff sleep is over: next iteration of the while loop calls
\* fetchWalletBalanceMetricsWithRetry() again
BackoffDone(c) ==
    /\ UNCHANGED notCollect
    /\ cpc[c] = "backoff"
    /\ cpc' = [cpc EXCEPT ![c] = "http"]
    /\ strategy' = [strategy EXCEPT ![c] = 0]
    /\ IssueRequest(c, requestTimeout, 0)
    /\ attempts' = [attempts EXCEPT ![c] = @ + 1]
    /\ ev' = Event("attempt", c, "none")
    /\ UNCHANGED <<now, svc, brk, isCollecting, retryCount, slept, lastCycleEnd>>

\* Batches processed, database updated, update broadcast: the cycle succeeds
ProcessDone(c) ==
    /\ UNCHANGED notCollect
    /\ cpc[c] = "processing"
    /\ errorCount' = ResetErrorCount(errorCount)
    /\ consecFails' = 0
    /\ isCollecting' = FALSE
    /\ Return(c)
    /\ lastCycleEnd' = "success"
    /\ ev' = Event("success", c, "data")
    /\ UNCHANGED <<now, svc, lastFailureTime, lastFailAt, http, requestTimeout>>

---------------------------------------------------------------------------
(* WalletBalanceService: start() and waitForMetricsEndpoint()              *)

\* waitForMetricsEndpoint(maxWaitTime = 30000, checkInterval = 2000); the
\* probe is an axios.get with timeout 5000
MaxWaitTime == 30000
CheckInterval == 2000
ProbeTimeout == 5000

\* How long a probe takes: it answers or is refused at once, or it runs into
\* its timeout
ProbeDurations == {0, ProbeTimeout}

\* A wait loop without a budget
WaitContinues_NoBudget(elapsed) == TRUE

\* The condition of the while loop: Date.now() - startTime < maxWaitTime
WaitContinues(elapsed) == elapsed < MaxWaitTime

\* waitForMetricsEndpoint returns isReady after elapsed ms
WaitReturns(isReady) ==
    gate' = [gate EXCEPT !.waited = now' - gate.since, !.ready = isReady]

\* start(): initializeDatabaseTables has returned (true or false);
\* waitForMetricsEndpoint takes startTime and issues the first probe
BeginWait ==
    /\ startPc = "gating"
    /\ UNCHANGED notCollect
    /\ startPc' = IF WaitContinues(0) THEN "probing" ELSE "started"
    /\ intervalId' = ~WaitContinues(0)
    /\ gate' = [since |-> now, waited |-> IF WaitContinues(0) THEN -1 ELSE 0, ready |-> FALSE]
    /\ ev' = Event("wait", "none", "none")
    /\ UNCHANGED <<now, isRunning, brk, cyc, lastCycleEnd>>

\* The probe has answered with status 200 (the wait returns true and start()
\* calls the initial collection) or has failed (sleep(checkInterval))
ProbeDone ==
    \E ok \in BOOLEAN, d \in ProbeDurations :
    /\ startPc = "probing"
    /\ now + d <= Epoch + MaxTime
    /\ UNCHANGED notCollect
    /\ now' = now + d
    /\ IF ok
       THEN /\ WaitReturns(TRUE)
            /\ CollectAndProcessBalances("startup")
            /\ startPc' = "initial"
       ELSE /\ startPc' = "sleeping"
            /\ ev' = Event("probefail", "none", "none")
            /\ UNCHANGED <<gate, cyc>>
    /\ UNCHANGED <<isRunning, intervalId, brk, lastCycleEnd>>

\* The sleep between two probes is over: the loop condition is tested again;
\* when the budget is used up the wait returns false and start() installs
\* the periodic timer
WaitSleepDone ==
    /\ startPc = "sleeping"
    /\ now + CheckInterval <= Epoch + MaxTime
    /\ UNCHANGED notCollect
    /\ now' = now + CheckInterval
    /\ IF WaitContinues(now' - gate.since)
       THEN /\ startPc' = "probing"
            /\ ev' = Event("probe", "none", "none")
            /\ UNCHANGED <<gate, intervalId>>
       ELSE /\ WaitReturns(FALSE)
            /\ startPc' = "started"
            /\ intervalId' = TRUE
            /\ ev' = Event("interval", "none", "none")
    /\ UNCHANGED <<isRunning, brk, cyc, lastCycleEnd>>

---------------------------------------------------------------------------
(* WebSocket hub                                                           *)

ClientIds == 1 .. MaxClients
Roles == {"admin", "monitoring"}

\* handleSubscription: allowedChannels
AllowedChannels ==
    {"metrics", "alerts", "system_status", "chain_updates", "worker_updates"}

\* What a client may put into data.channel ("" = the message carries no data)
ChannelArgs == {"metrics", "alerts", "system_status", "bogus", ""}

\* The messages a client sends: <<type, data.channel>>
Messages ==
    ({"subscribe", "unsubscribe", "request_data"} \X ChannelArgs)
        \cup ({"ping", "other", "unparsable"} \X {""})

Frame(type, channel, text) == [type |-> type, channel |-> channel, text |-> text]
NoMessage == [from |-> 0, type |-> "none", channel |-> ""]

\* No broadcast was made by the step
NoCast == [parts |-> {}, failed |-> {}]

InitHub ==
    /\ clients = << >>
    /\ sockets = {}
    /\ closing = {}
    /\ silent = {}
    /\ cast = NoCast
    /\ beatAt = Epoch
    /\ sent = {}
    /\ received = NoMessage

Registered == DOMAIN clients

Send(id, frame) == sent' = {[to |-> id, frame |-> frame]}

\* wss.on('connection'): an authenticated user's socket is registered
Connect(id, role) ==
    /\ UNCHANGED notHub
    /\ id \notin sockets
    /\ id \notin Registered
    /\ sockets' = sockets \cup {id}
    /\ clients' = [i \in Registered \cup {id} |->
                      IF i = id THEN [role |-> role, subscriptions |-> {}, lastPing |-> now]
                      ELSE clients[i]]
    /\ Send(id, Frame("welcome", "", role))
    /\ received' = NoMessage
    /\ cast' = NoCast
    /\ UNCHANGED <<closing, silent, beatAt>>

\* ws.on('close')
Close(id) ==
    /\ UNCHANGED notHub
    /\ id \in sockets
    /\ sockets' = sockets \ {id}
    /\ closing' = closing \ {id}
    /\ silent' = silent \ {id}
    /\ clients' = [i \in Registered \ {id} |-> clients[i]]
    /\ sent' = {}
    /\ received' = NoMessage
    /\ cast' = NoCast
    /\ UNCHANGED beatAt

\* ws.on('error'): the client leaves the registry; the socket is no longer
\* OPEN and emits 'close' later
SocketError(id) ==
    /\ UNCHANGED notHub
    /\ id \in sockets
    /\ id \in Registered
    /\ clients' = [i \in Registered \ {id} |-> clients[i]]
    /\ closing' = closing \cup {id}
    /\ received' = NoMessage
    /\ sent' = {}
    /\ cast' = NoCast
    /\ UNCHANGED <<sockets, silent, beatAt>>

\* handleSubscription without the role test
HandleSubscription_NoRoleCheck(id, channel) ==
    IF channel \notin AllowedChannels
    THEN /\ Send(id, Frame("error", "", "Invalid subscription channel"))
         /\ UNCHANGED clients
    ELSE /\ clients' = [clients EXCEPT ![id].subscriptions = @ \cup {channel}]
         /\ Send(id, Frame("subscription_confirmed", channel, "true"))

\* handleSubscription(clientId, data, clients), data.channel = channel
HandleSubscription(id, channel) ==
    IF channel \notin AllowedChannels
    THEN /\ Send(id, Frame("error", "", "Invalid subscription channel"))
         /\ UNCHANGED clients
    ELSE IF channel = "system_status" /\ clients[id].role # "admin"
    THEN /\ Send(id, Frame("error", "", "Insufficient permissions for this channel"))
         /\ UNCHANGED clients
    ELSE /\ clients' = [clients EXCEPT ![id].subscriptions = @ \cup {channel}]
         /\ Send(id, Frame("subscription_confirmed", channel, "true"))

\* handleUnsubscription(clientId, data, clients)
HandleUnsubscription(id, channel) ==
    /\ clients' = [clients EXCEPT ![id].subscriptions = @ \ {channel}]
    /\ Send(id, Frame("subscription_confirmed", channel, "false"))

\* handleDataRequest(clientId, data, clients); the channel argument stands
\* for data.requestType, "metrics" for 'current_status'
HandleDataRequest(id, requestType) ==
    /\ IF requestType = "metrics"
       THEN Send(id, Frame("data_response", "", "current_status"))
       ELSE Send(id, Frame("error", "", "Unknown data request type"))
    /\ UNCHANGED clients

\* ws.on('message') and handleClientMessage.  A message that is not JSON, or
\* a subscribe / unsubscribe / request_data message without data, throws
\* inside the try block and is answered with 'Invalid message format'.
Message(id, type, channel) ==
    /\ UNCHANGED notHub
    /\ id \in sockets
    /\ received' = [from |-> id, type |-> type, channel |-> channel]
    /\ cast' = NoCast
    /\ UNCHANGED <<sockets, closing, silent, beatAt>>
    /\ IF type = "unparsable"
       THEN Send(id, Frame("error", "", "Invalid message format")) /\ UNCHANGED clients
       ELSE IF id \notin Registered
       THEN sent' = {} /\ UNCHANGED clients
       ELSE IF type \in {"subscribe", "unsubscribe", "request_data"} /\ channel = ""
       THEN Send(id, Frame("error", "", "Invalid message format")) /\ UNCHANGED clients
       ELSE IF type = "subscribe" THEN HandleSubscription(id, channel)
       ELSE IF type = "unsubscribe" THEN HandleUnsubscription(id, channel)
       ELSE IF type = "ping" THEN Send(id, Frame("pong", "", "")) /\ UNCHANGED clients
       ELSE IF type = "request_data" THEN HandleDataRequest(id, channel)
       ELSE Send(id, Frame("error", "", "Unknown message type")) /\ UNCHANGED clients

---------------------------------------------------------------------------
(* AlertManager                                                            *)

\* processAlert: 5 * 60 * 1000
DedupWindow == 300000

\* The alerts submitted: chain "" is a null chain, client "" an alert without
\* data.object.dst_client_id
Alert(type, chain, severity, client) ==
    [type |-> type, chain |-> chain, severity |-> severity, client |-> client]

Alerts ==
    { Alert("source_connectivity", "", "critical", ""),
      Alert("client_misbehaviour", "osmosis-1", "warning", "07-tendermint-1"),
      Alert("client_misbehaviour", "osmosis-1", "warning", "07-tendermint-2") }

NoAlert == Alert("", "", "", "")

\* generateAlertKey(alert): the parts that join(':') concatenates
GenerateAlertKey(alert) ==
    <<alert.type, IF alert.chain = "" THEN "global" ELSE alert.chain, alert.severity>>
        \o (IF alert.client # "" THEN <<alert.client>> ELSE << >>)

AlertKeys == {GenerateAlertKey(a) : a \in Alerts}

---------------------------------------------------------------------------
(* AlertManager: the per-user gate of sendNotifications                    *)

\* const severityLevels = { 'info': 1, 'warning': 2, 'critical': 3 }
SeverityLevels == [info |-> 1, warning |-> 2, critical |-> 3]
Severities == DOMAIN SeverityLevels

AlertTypes == {"source_connectivity", "client_misbehaviour"}
AlertChains == {"", "osmosis-1"}

\* The alerts the gate is applied to (chain "" is a null chain)
GateAlerts ==
    {Alert(type, chain, severity, "") :
        type \in AlertTypes, chain \in AlertChains, severity \in Severities}

\* The alert_thresholds column: NULL, text that JSON.parse rejects, or an
\* object; minSeverity "" is an object without the field
Thresholds(json, minSeverity, disabledTypes, disabledChains) ==
    [json |-> json, minSeverity |-> minSeverity, disabledTypes |-> disabledTypes,
     disabledChains |-> disabledChains]
ThresholdsColumns ==
    {Thresholds("null", "", {}, {}), Thresholds("invalid", "", {}, {})}
        \cup {Thresholds("object", m, t, c) :
                m \in Severities \cup {""},
                t \in {{}, {"client_misbehaviour"}},
                c \in {{}, {"osmosis-1"}}}

\* A row of the users / notification_settings join ("" is an empty or NULL column)
UserRows ==
    [is_enabled : BOOLEAN, gotify_url : {"", "http://gotify"},
     gotify_token : {"", "token"}, alert_thresholds : ThresholdsColumns]

\* thresholds = user.alert_thresholds ? JSON.parse(user.alert_thresholds) : {},
\* {} when the parse throws
ParseThresholds(column) ==
    IF column.json = "object" THEN column ELSE Thresholds("object", "", {}, {})

\* thresholds.minSeverity || 'warning'
MinSeverity(thresholds) ==
    IF thresholds.minSeverity = "" THEN "warning" ELSE thresholds.minSeverity

\* The severity test letting an alert pass only above the minimum
SeverityBelow_OrEqual(severity, minSeverity) ==
    SeverityLevels[severity] <= SeverityLevels[minSeverity]

\* severityLevels[alert.severity] < severityLevels[minSeverity]
SeverityBelow(severity, minSeverity) ==
    SeverityLevels[severity] < SeverityLevels[minSeverity]

\* shouldSendAlert without the test of disabledChains
ShouldSendAlert_NoChainGate(alert, user) ==
    LET thresholds == ParseThresholds(user.alert_thresholds)
    IN  /\ user.is_enabled /\ user.gotify_url # "" /\ user.gotify_token # ""
        /\ ~SeverityBelow(alert.severity, MinSeverity(thresholds))
        /\ alert.type \notin thresholds.disabledTypes

\* shouldSendAlert(alert, user)
ShouldSendAlert(alert, user) ==
    LET thresholds == ParseThresholds(user.alert_thresholds)
    IN  IF ~user.is_enabled \/ user.gotify_url = "" \/ user.gotify_token = ""
        THEN FALSE
        ELSE IF SeverityBelow(alert.severity, MinSeverity(thresholds))
        THEN FALSE
        ELSE IF alert.type \in thresholds.disabledTypes
        THEN FALSE
        ELSE IF alert.chain # "" /\ alert.chain \in thresholds.disabledChains
        THEN FALSE
        ELSE TRUE

GateEvent(user, alert, posted, delivered) ==
    [user |-> user, alert |-> alert, posted |-> posted, delivered |-> delivered]
NoUserRow ==
    [is_enabled |-> FALSE, gotify_url |-> "", gotify_token |-> "",
     alert_thresholds |-> Thresholds("null", "", {}, {})]

InitGate ==
    gev = GateEvent(NoUserRow, NoAlert, FALSE, FALSE)

\* One turn of the loop of sendNotifications: the gate, and for a user who
\* passes it the POST to Gotify, which answers (ok) or fails (caught)
NotifyUser(user, alert, ok) ==
    /\ UNCHANGED notGate
    /\ gev' = GateEvent(user, alert, ShouldSendAlert(alert, user),
                        ShouldSendAlert(alert, user) /\ ok)

---------------------------------------------------------------------------
(* AlertManager: processAlert                                              *)

\* The clock steps of the alert manager: the deduplication window and 1 ms less
AlertTimeSteps == {DedupWindow, DedupWindow - 1}

\* The rows the users query of sendNotifications returns, in order: a user
\* with a channel and no thresholds, and one who wants critical alerts only
\* and none of osmosis-1
ActiveUsers ==
    << [is_enabled |-> TRUE, gotify_url |-> "http://gotify", gotify_token |-> "token",
        alert_thresholds |-> Thresholds("null", "", {}, {})],
       [is_enabled |-> TRUE, gotify_url |-> "http://gotify", gotify_token |-> "token",
        alert_thresholds |-> Thresholds("object", "critical", {}, {"osmosis-1"})] >>

\* What processAlert did last: the alert, what it returned, and for a
\* dispatch whether any POST to Gotify succeeded and the last user a POST
\* was made for (0 = none)
AlertEvent(op, alert, r, delivered, last) ==
    [op |-> op, alert |-> alert, ret |-> r, delivered |-> delivered, last |-> last]

AlertFrame(pc, alert, start, i, delivered) ==
    [pc |-> pc, alert |-> alert, start |-> start, i |-> i, delivered |-> delivered]

InitAlert ==
    /\ alertHistory = [k \in AlertKeys |-> 0]
    /\ alertRows = << >>
    /\ aframes = EmptyBag
    /\ dispatchLog = << >>
    /\ submitted = 0
    /\ aev = AlertEvent("none", NoAlert, "none", FALSE, 0)

\* processAlert returns: the invocation's frame is gone
AlertReturn(f) == aframes' = aframes (-) SetToBag({f})

\* The invocation of frame f goes on as frame g
AlertContinue(f, g) == aframes' = (aframes (-) SetToBag({f})) (+) SetToBag({g})

\* A test of alertHistory that never lets an entry expire
RecentlySent_Forever(key, t) == alertHistory[key] # 0

\* The test of alertHistory at the head of processAlert
RecentlySent(key, t) ==
    alertHistory[key] # 0 /\ t - alertHistory[key] < DedupWindow

\* processAlert(alert): up to the await of db.saveAlert
ProcessAlert ==
    \E alert \in Alerts :
    /\ BagCardinality(aframes) < MaxAlertProcs
    /\ submitted < MaxAlerts
    /\ UNCHANGED notAlert
    /\ submitted' = submitted + 1
    /\ UNCHANGED <<alertHistory, alertRows, dispatchLog>>
    /\ IF RecentlySent(GenerateAlertKey(alert), now)
       THEN /\ aev' = AlertEvent("duplicate", alert, "false", FALSE, 0)
            /\ UNCHANGED aframes
       ELSE /\ aframes' = aframes (+) SetToBag({AlertFrame("saving", alert, now, 0, FALSE)})
            /\ aev' = AlertEvent("save", alert, "none", FALSE, 0)

\* sendNotifications returned: broadcastAlert(alert) pushes to the hub,
\* alertHistory.set(alertKey, now), return true
NotificationsDone(f, delivered) ==
    /\ dispatchLog' = Append(dispatchLog,
                             [key |-> GenerateAlertKey(f.alert), at |-> f.start,
                              alert |-> f.alert])
    /\ alertHistory' = [alertHistory EXCEPT ![GenerateAlertKey(f.alert)] = f.start]
    /\ AlertReturn(f)
    /\ aev' = AlertEvent("dispatched", f.alert, "true", delivered, f.i)
    /\ UNCHANGED <<alertRows, submitted>>

\* The first user from index i on who passes shouldSendAlert (0 = none)
NextRecipient(alert, i) ==
    LET later == {j \in i .. Len(ActiveUsers) : ShouldSendAlert(alert, ActiveUsers[j])}
    IN  IF later = {} THEN 0 ELSE CHOOSE j \in later : \A k \in later : j <= k

\* The loop of sendNotifications from user i on: POST to the next user who
\* passes the gate, or leave the loop
NotifyFrom(f, i, delivered) ==
    IF NextRecipient(f.alert, i) # 0
    THEN /\ AlertContinue(f, [f EXCEPT !.pc = "posting",
                                        !.i = NextRecipient(f.alert, i),
                                        !.delivered = delivered])
         /\ aev' = AlertEvent("post", f.alert, "none", delivered, NextRecipient(f.alert, i))
         /\ UNCHANGED <<alertHistory, alertRows, dispatchLog, submitted>>
    ELSE NotificationsDone(f, delivered)

\* Where processAlert goes on when a failed saveAlert is not thrown
AfterSaveAlert_Swallowed(ok) == "users"

\* Where processAlert goes on after the await of db.saveAlert: a rejection
\* is thrown to the catch, which returns false
AfterSaveAlert(ok) == IF ok THEN "users" ELSE "return"

\* db.saveAlert has answered; on success sendNotifications awaits db.all
SaveAlertDone ==
    \E f \in BagToSet(aframes), ok \in BOOLEAN :
    /\ f.pc = "saving"
    /\ UNCHANGED notAlert
    /\ UNCHANGED <<alertHistory, dispatchLog, submitted>>
    /\ alertRows' = IF ok THEN Append(alertRows, f.alert) ELSE alertRows
    /\ IF AfterSaveAlert(ok) = "users"
       THEN /\ AlertContinue(f, [f EXCEPT !.pc = "users"])
            /\ aev' = AlertEvent("saved", f.alert, "none", FALSE, 0)
       ELSE /\ AlertReturn(f)
            /\ aev' = AlertEvent("failed", f.alert, "false", FALSE, 0)

\* The users query of sendNotifications has answered: the loop begins, or the
\* error is caught and sendNotifications returns with nothing sent
UsersDone ==
    \E f \in BagToSet(aframes), ok \in BOOLEAN :
    /\ f.pc = "users"
    /\ UNCHANGED notAlert
    /\ IF ok THEN NotifyFrom(f, 1, FALSE) ELSE NotificationsDone(f, FALSE)

\* The user the loop would go on with if a failed POST left it
ResumeAt_Abort(i, ok) == IF ok THEN i + 1 ELSE Len(ActiveUsers) + 1

\* The user the loop of sendNotifications goes on with after the POST for
\* user i: sendGotifyNotification has caught the failure and returned false
ResumeAt(i, ok) == i + 1

\* The POST to Gotify for user f.i has answered or failed (caught by
\* sendGotifyNotification): the loop goes on
PostDone ==
    \E f \in BagToSet(aframes), ok \in BOOLEAN :
    /\ f.pc = "posting"
    /\ UNCHANGED notAlert
    /\ NotifyFrom(f, ResumeAt(f.i, ok), f.delivered \/ ok)

---------------------------------------------------------------------------
(* Decimal resolver: getTokenDecimals and its tiers                        *)

\* JSON / JavaScript values: a number, null, undefined
Num(n) == [t |-> "num", n |-> n]
Null == [t |-> "null", n |-> 0]
Undef == [t |-> "undef", n |-> 0]
Truthy(v) == v.t = "num" /\ v.n # 0
\* (v || 0) of a number, null or undefined
OrZero(v) == IF Truthy(v) THEN v.n ELSE 0

\* Strings that the code inspects are sequences of characters
UATOM == <<"u", "a", "t", "o", "m">>
APLANQ == <<"a", "p", "l", "a", "n", "q">>
PLANQ == <<"p", "l", "a", "n", "q">>
EVMOS == <<"e", "v", "m", "o", "s">>
INJECTIVE == <<"i", "n", "j", "e", "c", "t", "i", "v", "e">>
CANTO == <<"c", "a", "n", "t", "o">>

StartsWith(str, prefix) ==
    Len(str) >= Len(prefix) /\ SubSeq(str, 1, Len(prefix)) = prefix
Includes(str, part) ==
    \E i \in 1 .. (Len(str) - Len(part) + 1) : SubSeq(str, i, i + Len(part) - 1) = part

\* The keys resolved: a chain with a REST endpoint in the environment and one without
Keys == { <<"cosmoshub-4", UATOM>>, <<"planq_7070-2", APLANQ>> }
ConfiguredChains == {"cosmoshub-4"}


\* getFallbackDecimals(denom)
GetFallbackDecimals(denom) ==
    IF \/ (StartsWith(denom, <<"a">>) /\ ~StartsWith(denom, <<"a", "u">>))
       \/ Includes(denom, PLANQ)
       \/ Includes(denom, EVMOS)
       \/ Includes(denom, INJECTIVE)
       \/ Includes(denom, CANTO)
    THEN Num(18)
    ELSE Num(6)

\* getNativeTokenDecimals(chainId, denom): the rows of the table for the chains above
GetNativeTokenDecimals(chainId, denom) ==
    IF chainId = "cosmoshub-4" /\ denom = UATOM THEN Num(6)
    ELSE IF chainId = "planq_7070-2" /\ denom = APLANQ THEN Num(18)
    ELSE Null

\* A denom unit and a metadata / asset object ("" display = no display field)
Unit(denom, exponent, aliases) ==
    [denom |-> denom, exponent |-> exponent, aliases |-> aliases]
Metadata(display, base, units) ==
    [display |-> display, base |-> base, denom_units |-> units]

\* The display name of a denom: the denom without its first character
DisplayOf(denom) == SubSeq(denom, 2, Len(denom))

\* The metadata objects an endpoint answers with for a denom: well formed
\* (display exponent 6), the base unit as display (exponent 0), a negative
\* display exponent, units without display and exponents
MetadataSamples(denom) ==
    { Metadata(DisplayOf(denom), denom,
               <<Unit(denom, Num(0), {}), Unit(DisplayOf(denom), Num(6), {})>>),
      Metadata(denom, denom,
               <<Unit(denom, Num(0), {}), Unit(DisplayOf(denom), Num(6), {})>>),
      Metadata(DisplayOf(denom), denom,
               <<Unit(denom, Num(0), {}), Unit(DisplayOf(denom), Num(0 - 6), {})>>),
      Metadata(<< >>, denom,
               <<Unit(denom, Undef, {}), Unit(DisplayOf(denom), Undef, {denom})>>) }

\* Array.prototype.find: the index of the first element with P, 0 if none
FindIndex(seq, P(_)) ==
    LET idx == {i \in 1 .. Len(seq) : P(seq[i])}
    IN  IF idx = {} THEN 0 ELSE CHOOSE i \in idx : \A j \in idx : i <= j

\* matchingUnits.reduce((max, unit) => (unit.exponent || 0) > (max.exponent || 0) ? unit : max)
RECURSIVE ReduceMax(_, _, _)
ReduceMax(units, max, i) ==
    IF i > Len(units) THEN max
    ELSE ReduceMax(units,
                   IF OrZero(units[i].exponent) > OrZero(max.exponent) THEN units[i] ELSE max,
                   i + 1)

\* parseMetadataDecimals(metadata, denom)
ParseMetadataDecimals(metadata, denom) ==
    LET units == metadata.denom_units
        d == FindIndex(units, LAMBDA u : u.denom = metadata.display)
        matchingUnits == SelectSeq(units, LAMBDA u :
                            u.denom = denom \/ u.denom = metadata.base \/ denom \in u.aliases)
        maxExponentUnit == ReduceMax(matchingUnits, matchingUnits[1], 2)
        nonZeroExponentUnits == SelectSeq(units, LAMBDA u :
                            Truthy(u.exponent) /\ u.exponent.n > 0)
    IN  IF metadata.display # << >> /\ d # 0 /\ units[d].exponent # Undef
        THEN units[d].exponent
        ELSE IF Len(matchingUnits) > 0 /\ maxExponentUnit.exponent # Undef
        THEN maxExponentUnit.exponent
        ELSE IF Len(nonZeroExponentUnits) = 1
        THEN nonZeroExponentUnits[1].exponent
        ELSE Null

\* What one HTTP request of the chain API can bring: "fail" (the request
\* rejects), "none" (no metadata for the denom), or a metadata object
ChainResponses(denom) ==
    {[kind |-> "fail"], [kind |-> "none"]}
        \cup {[kind |-> "metadata", metadata |-> m] : m \in MetadataSamples(denom)}

\* The supply endpoint: the request rejects, another denom, the denom with a
\* decimals field, the denom alone
SupplyResponses ==
    {[kind |-> "fail"], [kind |-> "other", decimals |-> Undef]}
       \cup {[kind |-> "denom", decimals |-> v] : v \in {Undef, Num(0 - 6)}}

\* The assetlist of cosmos.directory: the request rejects, no asset for the
\* denom, or an asset
DirectoryResponses(denom) ==
    {[kind |-> "fail"], [kind |-> "none"]}
        \cup {[kind |-> "asset", asset |-> m] : m \in MetadataSamples(denom)}

\* fetchDecimalsFromChainAPI, strategies 1 and 2: the value of one strategy
\* (Null = no value, the next strategy is tried)
MetadataStrategy(resp, denom) ==
    IF resp.kind = "metadata" /\ Len(resp.metadata.denom_units) > 0
    THEN ParseMetadataDecimals(resp.metadata, denom)
    ELSE Null

\* fetchDecimalsFromChainAPI, strategy 3
SupplyStrategy(resp, chainId, denom) ==
    IF resp.kind = "denom" /\ Truthy(resp.decimals) THEN resp.decimals
    ELSE IF resp.kind = "denom" THEN GetNativeTokenDecimals(chainId, denom)
    ELSE Null

\* fetchDecimalsFromDirectory(chainId, denom): the value returned
DirectoryDecimals(resp, denom) ==
    IF resp.kind = "fail" THEN GetFallbackDecimals(denom)
    ELSE IF resp.kind = "asset" /\ Len(resp.asset.denom_units) > 0
    THEN LET units == resp.asset.denom_units
             d == FindIndex(units, LAMBDA u : u.denom = resp.asset.display)
         IN  IF d # 0
             THEN IF Truthy(units[d].exponent) THEN units[d].exponent ELSE Num(6)
             ELSE Num(6)
    ELSE Num(6)

\* A return of getTokenDecimals: how it ended ("hit", "saved", "unsaved"), for
\* which key, the value, whether the call used the network, its place in the
\* history (seq, stored) and the value the call before it returned
ResolveEvent(op, key, r, net, seq, stored, prev) ==
    [op |-> op, key |-> key, ret |-> r, net |-> net, seq |-> seq,
     stored |-> stored, prev |-> prev]
NoKey == <<"", << >> >>
NoResolveEvent == ResolveEvent("none", NoKey, Null, FALSE, FALSE, FALSE, Null)
Returns == {"hit", "saved", "unsaved"}

\* The frame of one invocation
Call(pc, key, decimals, net, seq, stored) ==
    [pc |-> pc, key |-> key, decimals |-> decimals, net |-> net, seq |-> seq,
     stored |-> stored]

InitResolve ==
    /\ tokenDecimals = [k \in Keys |-> Null]
    /\ calls = EmptyBag
    /\ prevResult = [k \in Keys |-> Null]
    /\ rev = NoResolveEvent

\* The invocations in flight with frame c replaced by frame d
Continue(c, d) == (calls (-) SetToBag({c})) (+) SetToBag({d})

\* The number of frames of bag B that are in set S
RECURSIVE Copies(_, _)
Copies(S, B) ==
    IF S = {} THEN 0
    ELSE LET d == CHOOSE x \in S : TRUE IN CopiesIn(d, B) + Copies(S \ {d}, B)

\* History: the calls of key still running are no longer the next call after one
NotNext(key, B) ==
    LET Clear(d) == IF d.key = key THEN [d EXCEPT !.seq = FALSE] ELSE d
    IN  [e \in {Clear(d) : d \in BagToSet(B)} |->
            Copies({d \in BagToSet(B) : Clear(d) = e}, B)]

\* getTokenDecimals returns value to its caller; the frame is gone
ResolveReturn(c, op, value, stored) ==
    /\ rev' = ResolveEvent(op, c.key, value, c.net, c.seq, stored, prevResult[c.key])
    /\ prevResult' = [prevResult EXCEPT ![c.key] = value]
    /\ calls' = NotNext(c.key, calls (-) SetToBag({c}))

\* getTokenDecimals(chainId, denom): up to the await of db.get
GetTokenDecimals ==
    \E key \in Keys :
    /\ BagCardinality(calls) < MaxTasks
    /\ UNCHANGED notResolve
    /\ calls' = calls (+) SetToBag({Call("dbGet", key, Null, FALSE,
                                         prevResult[key] # Null, FALSE)})
    /\ rev' = NoResolveEvent
    /\ UNCHANGED <<tokenDecimals, prevResult>>

\* The value getDecimalsFromDatabase returns: the row's decimals, null when
\* there is no row, the database is missing or the query throws
GetDecimalsFromDatabase(key, ok) ==
    IF ok THEN tokenDecimals[key] ELSE Null

\* The cache test of getTokenDecimals taking a stored 0 for a miss
CacheHit_Truthy(cachedDecimals) == Truthy(cachedDecimals)

\* if (cachedDecimals !== null)
CacheHit(cachedDecimals) == cachedDecimals # Null

\* History: the read succeeds on a cache holding what the call before returned
StoredPrevious(c, ok) ==
    ok /\ prevResult[c.key] # Null /\ tokenDecimals[c.key] = prevResult[c.key]

\* The first request after a miss if the directory were asked before the chain
FirstTier_Directory(chainId) == "directory"

\* The first request after a miss: fetchDecimalsFromChainAPI returns null at
\* once for a chain without an endpoint in the environment
FirstTier(chainId) == IF chainId \in ConfiguredChains THEN "chain1" ELSE "directory"

\* getDecimalsFromDatabase has answered.  A hit returns; a miss enters
\* fetchDecimalsFromChainAPI, which issues strategy 1's request when the chain
\* has an endpoint and otherwise returns null, so that
\* fetchDecimalsFromDirectory issues its request.
DbGetDone ==
    \E c \in BagToSet(calls), ok \in BOOLEAN :
    /\ c.pc = "dbGet"
    /\ UNCHANGED notResolve
    /\ UNCHANGED tokenDecimals
    /\ IF CacheHit(GetDecimalsFromDatabase(c.key, ok))
       THEN ResolveReturn(c, "hit", GetDecimalsFromDatabase(c.key, ok),
                          StoredPrevious(c, ok))
       ELSE /\ calls' = Continue(c, [c EXCEPT
                          !.pc = FirstTier(c.key[1]),
                          !.net = TRUE,
                          !.stored = StoredPrevious(c, ok)])
            /\ rev' = NoResolveEvent
            /\ UNCHANGED prevResult

\* The local decimals is known: saveDecimalsToDatabase is called
BeginSave(c, value) ==
    calls' = Continue(c, [c EXCEPT !.pc = "save", !.decimals = value])

\* A strategy of fetchDecimalsFromChainAPI has its value: a value goes to the
\* save, no value to the next strategy's request
StrategyDone(c, value, nextPc) ==
    /\ UNCHANGED <<tokenDecimals, prevResult>>
    /\ rev' = NoResolveEvent
    /\ IF value # Null
       THEN BeginSave(c, value)
       ELSE calls' = Continue(c, [c EXCEPT !.pc = nextPc])

\* Strategy 1: GET /cosmos/bank/v1beta1/denom_metadata/{denom} has answered
Chain1Done ==
    \E c \in BagToSet(calls) : c.pc = "chain1" /\ \E resp \in ChainResponses(c.key[2]) :
    /\ UNCHANGED notResolve
    /\ StrategyDone(c, MetadataStrategy(resp, c.key[2]), "chain2")

\* Strategy 2: GET /cosmos/bank/v1beta1/denoms_metadata has answered
Chain2Done ==
    \E c \in BagToSet(calls) : c.pc = "chain2" /\ \E resp \in ChainResponses(c.key[2]) :
    /\ UNCHANGED notResolve
    /\ StrategyDone(c, MetadataStrategy(resp, c.key[2]), "chain3")

\* Strategy 3: GET /cosmos/bank/v1beta1/supply/{denom} has answered
Chain3Done ==
    \E c \in BagToSet(calls) : c.pc = "chain3" /\ \E resp \in SupplyResponses :
    /\ UNCHANGED notResolve
    /\ StrategyDone(c, SupplyStrategy(resp, c.key[1], c.key[2]), "directory")

\* fetchDecimalsFromDirectory: the assetlist request has answered
DirectoryDone ==
    \E c \in BagToSet(calls) : c.pc = "directory" /\ \E resp \in DirectoryResponses(c.key[2]) :
    /\ UNCHANGED notResolve
    /\ UNCHANGED <<tokenDecimals, prevResult>>
    /\ rev' = NoResolveEvent
    /\ BeginSave(c, DirectoryDecimals(resp, c.key[2]))

\* The INSERT binding the heuristic's value instead of the local decimals
StoredValue_Fallback(c) == GetFallbackDecimals(c.key[2])

\* VALUES (?, ?, ?, CURRENT_TIMESTAMP) bound to [chainId, denom, decimals]
StoredValue(c) == c.decimals

\* saveDecimalsToDatabase has returned (INSERT OR REPLACE done when ok; the
\* database missing or a statement throwing when not): return decimals
SaveDone ==
    \E c \in BagToSet(calls), ok \in BOOLEAN :
    /\ c.pc = "save"
    /\ UNCHANGED notResolve
    /\ tokenDecimals' = IF ok THEN [tokenDecimals EXCEPT ![c.key] = StoredValue(c)]
                        ELSE tokenDecimals
    /\ ResolveReturn(c, IF ok THEN "saved" ELSE "unsaved", c.decimals, c.stored)

---------------------------------------------------------------------------
(* WebSocket hub: broadcasts                                               *)

\* The channels the clients of the broadcast specification subscribe to
CastChannels == {"alerts", "chain_updates"}

\* client.ws.readyState === WebSocket.OPEN
Open(id) == id \in sockets /\ id \notin closing

\* A filter that wants every target channel subscribed
Intersects_All(subscriptions, targets) == targets \subseteq subscriptions

\* The subscription filters of the callers: subscriptions.has(c) for one of
\* the target channels
Intersects(subscriptions, targets) == subscriptions \cap targets # {}

\* A role filter that lets every role through
RoleMatches_Any(clientRole, role) == TRUE

\* The filter of broadcastToRole
RoleMatches(clientRole, role) == clientRole = role \/ clientRole = "admin"

\* One call of broadcast: the message type and its filter, by subscription
\* (targets) or by role
Part(type, targets, role) ==
    [type |-> type, targets |-> targets, role |-> role, filtered |-> TRUE]

\* A call of broadcast with the message alone: filterFn = null
Unfiltered(type) == [type |-> type, targets |-> {}, role |-> "", filtered |-> FALSE]

\* !filterFn || filterFn(client)
Passes(client, part) ==
    IF ~part.filtered THEN TRUE
    ELSE IF part.role # "" THEN RoleMatches(client.role, part.role)
    ELSE Intersects(client.subscriptions, part.targets)

\* The clients for which broadcast calls client.ws.send
Eligible(part) == {id \in Registered : Open(id) /\ Passes(clients[id], part)}

\* The loop of broadcast if a throwing send were not caught (clients taken in
\* the order of their ids)
Delivered_Uncaught(eligible, broken) ==
    {id \in eligible : \A b \in eligible \cap broken : id < b}

\* The clients whose send returned: a throwing send is caught and logged,
\* and the loop goes on
Delivered(eligible, broken) == eligible \ broken

\* A handler that calls broadcast once per part; send throws for the clients
\* of broken
Broadcast(parts, broken) ==
    /\ sent' = UNION {{[to |-> id, frame |-> Frame(part.type, "", "")] :
                          id \in Delivered(Eligible(part), broken)} : part \in parts}
    /\ cast' = [parts |-> parts,
                failed |-> broken \cap UNION {Eligible(part) : part \in parts}]
    /\ received' = NoMessage
    /\ UNCHANGED <<clients, sockets, closing, silent, beatAt>>

\* AlertManager.broadcastAlert(alert)
BroadcastAlert ==
    \E severity \in {"warning", "critical"}, broken \in SUBSET Registered :
    /\ UNCHANGED notHub
    /\ Broadcast({Part("new_alert", {"alerts"}, "")}
                    \cup (IF severity = "critical"
                          THEN {Part("critical_alert", {}, "admin")} ELSE {}),
                 broken)

\* MetricsCollector.broadcastMetricsUpdate(source, metrics, analysis)
BroadcastMetricsUpdate ==
    \E hasAlerts \in BOOLEAN, broken \in SUBSET Registered :
    /\ UNCHANGED notHub
    /\ Broadcast({Part("metrics_update", {"metrics", "chain_updates"}, "")}
                    \cup (IF hasAlerts
                          THEN {Part("alerts_update", {"alerts"}, "")} ELSE {}),
                 broken)

\* broadcastToRole(message, role)
BroadcastToRole ==
    \E role \in Roles, broken \in SUBSET Registered :
    /\ UNCHANGED notHub
    /\ Broadcast({Part("role_message", {}, role)}, broken)

\* WalletMonitor.broadcastAlert(alertData)
BroadcastWalletAlert ==
    \E broken \in SUBSET Registered :
    /\ UNCHANGED notHub
    /\ Broadcast({Unfiltered("wallet_alert")}, broken)

\* WalletMonitor.broadcastBalanceUpdate(wallet, denom, balanceChange) and
\* WalletBalanceService.broadcastBalanceUpdates(processedBalances)
BroadcastBalanceUpdate ==
    \E type \in {"balance_update", "wallet_balances_update"}, broken \in SUBSET Registered :
    /\ UNCHANGED notHub
    /\ Broadcast({Unfiltered(type)}, broken)

\* The closing handshake of a socket begins: readyState leaves OPEN
BeginClose ==
    \E id \in sockets \ closing :
    /\ UNCHANGED notHub
    /\ closing' = closing \cup {id}
    /\ sent' = {}
    /\ received' = NoMessage
    /\ cast' = NoCast
    /\ UNCHANGED <<clients, sockets, silent, beatAt>>

\* A client subscribes to one of the broadcast channels
Subscribe == \E id \in ClientIds, channel \in CastChannels : Message(id, "subscribe", channel)

---------------------------------------------------------------------------
(* WebSocket hub: heartbeat                                                *)

\* The period of the heartbeat timer (WS_HEARTBEAT_INTERVAL unset)
HeartbeatInterval == 30000

\* The silence after which the heartbeat removes a client
StaleAfter == 60000

\* The clock of the hub advances from one firing of the timer to the next
HubTimeStep == HeartbeatInterval

\* A heartbeat that removes nobody
IsStale_Never(lastPing, t) == FALSE

\* now - client.lastPing > 60000
IsStale(lastPing, t) == t - lastPing > StaleAfter

\* WS_HEARTBEAT_INTERVAL set to 90: a period longer than the silence allowed
SlowHeartbeatInterval == 3 * HeartbeatInterval

\* Time passes, up to the moment the heartbeat timer of the period is due
HubTickEvery(interval) ==
    /\ now - beatAt < interval
    /\ now + HubTimeStep <= Epoch + MaxBeats * interval
    /\ UNCHANGED <<svc, brk, cyc, ev, lastCycleEnd, avars, rvars, gvars, mvars, bvars, pvars, tvars, wvars>>
    /\ now' = now + HubTimeStep
    /\ sent' = {}
    /\ received' = NoMessage
    /\ cast' = NoCast
    /\ UNCHANGED <<clients, sockets, closing, silent, beatAt>>

\* The heartbeat timer of the period fires: ping every open socket, then
\* terminate and delete the stale clients
HeartbeatEvery(interval) ==
    LET stale == {id \in Registered : IsStale(clients[id].lastPing, now)}
    IN  /\ now - beatAt >= interval
        /\ UNCHANGED notHub
        /\ beatAt' = now
        /\ sent' = {[to |-> id, frame |-> Frame("ping", "", "")] : id \in sockets \ closing}
        /\ clients' = [i \in Registered \ stale |-> clients[i]]
        /\ sockets' = sockets \ stale
        /\ closing' = closing \ stale
        /\ silent' = silent \ stale
        /\ received' = NoMessage
        /\ cast' = NoCast

\* The timer with the default period
HubTick == HubTickEvery(HeartbeatInterval)

Heartbeat == HeartbeatEvery(HeartbeatInterval)

\* The timer with the period of WS_HEARTBEAT_INTERVAL = 90
SlowHubTick == HubTickEvery(SlowHeartbeatInterval)

SlowHeartbeat == HeartbeatEvery(SlowHeartbeatInterval)

\* ws.on('pong')
Pong ==
    \E id \in sockets \ silent :
    /\ UNCHANGED notHub
    /\ clients' = IF id \in Registered
                  THEN [clients EXCEPT ![id].lastPing = now]
                  ELSE clients
    /\ sent' = {}
    /\ received' = NoMessage
    /\ cast' = NoCast
    /\ UNCHANGED <<sockets, closing, silent, beatAt>>

\* The peer of a socket stops answering: no pong comes from it any more
GoSilent ==
    \E id \in sockets \ silent :
    /\ UNCHANGED notHub
    /\ silent' = silent \cup {id}
    /\ sent' = {}
    /\ received' = NoMessage
    /\ cast' = NoCast
    /\ UNCHANGED <<clients, sockets, closing, beatAt>>

---------------------------------------------------------------------------
(* MetricsCollector: the periodic collection                               *)

SourceIds == 1 .. MaxSources

\* The cron expression '*/10 * * * * *': a firing every 10 s
CronPeriod == 10000

\* source.refresh_interval in seconds: the default of the column for the
\* first source, a longer one for the others
RefreshSeconds == [s \in SourceIds |-> IF s = 1 THEN 10 ELSE 30]

\* What the collector did last
MetricsEvent(op, source) == [op |-> op, source |-> source]

\* A firing of the cron callback: where it waits and for which source
CronRun(pc, source) == [pc |-> pc, source |-> source]

InitMetrics ==
    /\ started = FALSE
    /\ lastMetrics = [s \in SourceIds |-> 0]
    /\ mruns = EmptyBag
    /\ mev = MetricsEvent("none", 0)
    /\ pollStart = [s \in SourceIds |-> 0]

\* start(): the initial collectFromAllSources, one source after the other,
\* then startPeriodicCollection; lastMetrics is set for the sources whose
\* collection succeeded
StartMetrics ==
    \E succeeded \in SUBSET SourceIds :
    /\ ~started
    /\ UNCHANGED notMetrics
    /\ started' = TRUE
    /\ lastMetrics' = [s \in SourceIds |-> IF s \in succeeded THEN now ELSE 0]
    /\ mev' = MetricsEvent("started", 0)
    /\ pollStart' = [s \in SourceIds |-> now]
    /\ UNCHANGED mruns

\* The test of the loop: no collection yet, or the last one is at least
\* refresh_interval old
Due(source, t) ==
    \/ lastMetrics[source] = 0
    \/ t - lastMetrics[source] >= RefreshSeconds[source] * 1000

\* Collections of the source that are awaited at this moment
SourceInFlight(source) == CopiesIn(CronRun("collecting", source), mruns)

\* The first source from index i on that is due (0 = none)
NextDue(i) ==
    LET due == {s \in SourceIds : s >= i /\ Due(s, now)}
    IN  IF due = {} THEN 0 ELSE CHOOSE s \in due : \A o \in due : s <= o

\* The loop over the sources from index i on: await collectFromSource for the
\* next source that is due, or the callback returns
CollectFrom(run, i) ==
    IF NextDue(i) = 0
    THEN /\ mruns' = mruns (-) SetToBag({run})
         /\ mev' = MetricsEvent("returned", 0)
         /\ UNCHANGED pollStart
    ELSE /\ mruns' = (mruns (-) SetToBag({run}))
                        (+) SetToBag({CronRun("collecting", NextDue(i))})
         /\ mev' = MetricsEvent("collect", NextDue(i))
         /\ pollStart' = [pollStart EXCEPT ![NextDue(i)] = now]

\* The cron task fires, 10 s after the firing before: the callback awaits
\* db.getActiveMetricsSources
CronFire ==
    /\ started
    /\ BagCardinality(mruns) < MaxRuns
    /\ now + CronPeriod <= Epoch + MaxFirings * CronPeriod
    /\ UNCHANGED <<svc, brk, cyc, ev, lastCycleEnd, hvars, avars, rvars, gvars, bvars, pvars, tvars, wvars>>
    /\ now' = now + CronPeriod
    /\ mruns' = mruns (+) SetToBag({CronRun("sources", 0)})
    /\ mev' = MetricsEvent("fired", 0)
    /\ UNCHANGED <<started, lastMetrics, pollStart>>

\* db.getActiveMetricsSources has answered: the loop begins, or the error is
\* caught and the callback returns
SourcesDone ==
    \E run \in BagToSet(mruns), ok \in BOOLEAN :
    /\ run.pc = "sources"
    /\ UNCHANGED notMetrics
    /\ UNCHANGED <<started, lastMetrics>>
    /\ IF ok THEN CollectFrom(run, 1)
       ELSE /\ mruns' = mruns (-) SetToBag({run})
            /\ mev' = MetricsEvent("returned", 0)
            /\ UNCHANGED pollStart

\* collectFromSource(source) has finished: lastMetrics.set on success, the
\* error broadcast otherwise; the loop goes on with the next source
CollectDone ==
    \E run \in BagToSet(mruns), ok \in BOOLEAN :
    /\ run.pc = "collecting"
    /\ UNCHANGED notMetrics
    /\ UNCHANGED started
    /\ lastMetrics' = IF ok THEN [lastMetrics EXCEPT ![run.source] = now] ELSE lastMetrics
    /\ CollectFrom(run, run.source + 1)

---------------------------------------------------------------------------
(* WalletBalanceService: the batches of a cycle and their persistence      *)
(*                                                                         *)
(* The stage of collectAndProcessBalances between the fetch and the return *)
(* of the cycle's result.  A record is the index of its metrics line.      *)

BatchSize == 10

Range(s) == {s[k] : k \in 1 .. Len(s)}

\* balances.slice(i, i + batchSize)
Slice(i) ==
    [k \in 1 .. (IF i + BatchSize < balances THEN BatchSize ELSE balances - i) |-> i + k]

\* What the forEach over the results of Promise.all would push: nothing of a
\* batch one of whose promises was lost
Settled_All(batch, failed) == IF failed = {} THEN batch ELSE <<>>

\* What the forEach over the results of Promise.allSettled pushes: the value
\* of every result that is fulfilled with a non-null value
Settled(batch, failed) == SelectSeq(batch, LAMBDA r : r \notin failed)

\* The per-item failures logged so far
Failed(stage) == {f.record : f \in {g \in failures : g.stage = stage}}

InitBatch ==
    /\ bpc = "idle"
    /\ balances = 0
    /\ bi = 0
    /\ processedBalances = << >>
    /\ bk = 0
    /\ persisted = {}
    /\ failures = {}

\* fetchWalletBalanceMetricsWithRetry returned n > 0 lines
BalancesFetched ==
    /\ bpc = "idle"
    /\ \E n \in 1 .. MaxRecords : balances' = n
    /\ bpc' = "batch"
    /\ bi' = 0
    /\ processedBalances' = << >>
    /\ UNCHANGED <<bk, persisted, failures>>
    /\ UNCHANGED notBatch

\* Promise.allSettled of a batch resolves: processWalletBalance returned null
\* for the records of "failed" and the processed record for the others
BatchSettled ==
    /\ bpc = "batch"
    /\ \E failed \in SUBSET Range(Slice(bi)) :
          /\ Cardinality(failures) + Cardinality(failed) <= MaxFailures
          /\ processedBalances' = processedBalances \o Settled(Slice(bi), failed)
          /\ failures' = failures \cup {[record |-> r, stage |-> "process"] : r \in failed}
    /\ IF bi + BatchSize < balances
         THEN bpc' = "rateSleep" /\ bk' = bk
         ELSE bpc' = "persist" /\ bk' = 1
    /\ UNCHANGED <<balances, bi, persisted>>
    /\ UNCHANGED notBatch

\* sleep(rateLimitDelay) between two batches is over
RateLimitDone ==
    /\ bpc = "rateSleep"
    /\ bi' = bi + BatchSize
    /\ bpc' = "batch"
    /\ UNCHANGED <<balances, processedBalances, bk, persisted, failures>>
    /\ UNCHANGED notBatch

\* One turn of the loop of updateBalancesInDatabase: the record's wallet is
\* found or created and its balance written, or one of the three throws and
\* the catch of the turn logs it and continues
PersistOne ==
    /\ bpc = "persist"
    /\ bk <= Len(processedBalances)
    /\ \E ok \in BOOLEAN :
          IF ok
            THEN /\ persisted' = persisted \cup {processedBalances[bk]}
                 /\ UNCHANGED failures
            ELSE /\ Cardinality(failures) < MaxFailures
                 /\ failures' = failures \cup {[record |-> processedBalances[bk], stage |-> "persist"]}
                 /\ UNCHANGED persisted
    /\ bk' = bk + 1
    /\ UNCHANGED <<bpc, balances, bi, processedBalances>>
    /\ UNCHANGED notBatch

\* The loop is over: the cycle broadcasts and returns processedBalances
BatchesDone ==
    /\ bpc = "persist"
    /\ bk > Len(processedBalances)
    /\ bpc' = "done"
    /\ UNCHANGED <<balances, bi, processedBalances, bk, persisted, failures>>
    /\ UNCHANGED notBatch

---------------------------------------------------------------------------
(* Storage of wallets and balances: find-or-create and updateWalletBalance *)
(*                                                                         *)
(* A writer is a loop that persists the records of a collection, one at a  *)
(* time: updateBalancesInDatabase of the balance service, or               *)
(* collectFromMetricsEndpoint of the wallet monitor, whose timer starts a   *)
(* collection whether or not the one before has returned.  A balance is a  *)
(* number of units of 0.0000005.                                            *)

\* The two loops that persist the records of the metrics endpoint
Writers == {"walletBalanceService", "walletMonitor"}

\* (chain_id, address) of the metrics lines
Wallets == {<<"osmosis-1", "osmo1relayer">>, <<"cosmoshub-4", "cosmos1relayer">>}

Denom == "uosmo"

Balances == 0 .. 3

\* updateWalletBalance: 0.000001, in units
Epsilon == 2

Abs(x) == IF x < 0 THEN -x ELSE x

NoWrite == [pc |-> "idle", wallet |-> << >>, balance |-> 0, walletId |-> 0,
            oldBalance |-> 0, stored |-> 0]

\* wallet_addresses: the row of id k is walletAddresses[k]
WalletRow(wallet) == [chain_id |-> wallet[1], address |-> wallet[2], address_type |-> "relayer"]

\* SELECT id FROM wallet_addresses WHERE address = ? AND chain_id = ?  (0 = no row)
FindWallet(wallet) ==
    LET ids == {k \in 1 .. Len(walletAddresses) :
                   /\ walletAddresses[k].address = wallet[2]
                   /\ walletAddresses[k].chain_id = wallet[1]}
    IN  IF ids = {} THEN 0 ELSE CHOOSE k \in ids : \A j \in ids : k <= j

\* An INSERT into a wallet_addresses without its UNIQUE constraint
InsertAllowed_NoConstraint(row) == TRUE

\* wallet_schema.sql: UNIQUE(chain_id, address, address_type)
InsertAllowed(row) ==
    \A k \in 1 .. Len(walletAddresses) :
        ~ /\ walletAddresses[k].chain_id = row.chain_id
          /\ walletAddresses[k].address = row.address
          /\ walletAddresses[k].address_type = row.address_type

\* The rows of wallet_balances of a wallet and the denom
BalanceRows(id) == {r \in walletBalances : r.wallet_id = id /\ r.denom = Denom}

\* SELECT balance FROM wallet_balances ...; parseFloat of it, or 0 without a row
StoredBalance(id) ==
    IF BalanceRows(id) = {} THEN 0 ELSE (CHOOSE r \in BalanceRows(id) : TRUE).balance

\* INSERT OR REPLACE under UNIQUE(wallet_id, denom): the rows in conflict
\* are deleted and the new row is inserted
Upsert(id, balance) ==
    (walletBalances \ BalanceRows(id)) \cup {[wallet_id |-> id, denom |-> Denom, balance |-> balance]}

InitPersist ==
    /\ walletAddresses = << >>
    /\ walletBalances = {}
    /\ balanceHistory = << >>
    /\ writes = [p \in Writers |-> NoWrite]
    /\ updates = 0

\* A writer turns to the next record of its collection and awaits the
\* SELECT on wallet_addresses
BeginRecord ==
    \E p \in Writers, wallet \in Wallets, balance \in Balances :
    /\ writes[p].pc = "idle"
    /\ updates < MaxUpdates
    /\ updates' = updates + 1
    /\ writes' = [writes EXCEPT ![p] = [NoWrite EXCEPT !.pc = "finding", !.wallet = wallet,
                                                        !.balance = balance]]
    /\ UNCHANGED <<walletAddresses, walletBalances, balanceHistory>>
    /\ UNCHANGED notPersist

\* The SELECT has answered: with the id, updateWalletBalance begins and
\* awaits its SELECT; without a row, createWalletAddress is awaited
FindDone ==
    \E p \in Writers :
    /\ writes[p].pc = "finding"
    /\ writes' = [writes EXCEPT ![p] =
                    IF FindWallet(writes[p].wallet) # 0
                      THEN [@ EXCEPT !.pc = "reading", !.walletId = FindWallet(writes[p].wallet)]
                      ELSE [@ EXCEPT !.pc = "creating"]]
    /\ UNCHANGED <<walletAddresses, walletBalances, balanceHistory, updates>>
    /\ UNCHANGED notPersist

\* The INSERT of createWalletAddress has run: the row has the next id, or the
\* constraint rejects it and the catch of the record drops the record
CreateDone ==
    \E p \in Writers :
    /\ writes[p].pc = "creating"
    /\ IF InsertAllowed(WalletRow(writes[p].wallet))
         THEN /\ walletAddresses' = Append(walletAddresses, WalletRow(writes[p].wallet))
              /\ writes' = [writes EXCEPT ![p] = [@ EXCEPT !.pc = "reading",
                                                           !.walletId = Len(walletAddresses) + 1]]
         ELSE /\ writes' = [writes EXCEPT ![p] = [NoWrite EXCEPT !.wallet = writes[p].wallet]]
              /\ UNCHANGED walletAddresses
    /\ UNCHANGED <<walletBalances, balanceHistory, updates>>
    /\ UNCHANGED notPersist

\* updateWalletBalance: the SELECT of the current balance has answered,
\* oldBalance is set and the INSERT OR REPLACE is awaited
ReadDone ==
    \E p \in Writers :
    /\ writes[p].pc = "reading"
    /\ writes' = [writes EXCEPT ![p] = [@ EXCEPT !.pc = "upserting",
                                                 !.oldBalance = StoredBalance(writes[p].walletId)]]
    /\ UNCHANGED <<walletAddresses, walletBalances, balanceHistory, updates>>
    /\ UNCHANGED notPersist

\* The INSERT OR REPLACE has run: with a change above the epsilon the INSERT
\* into balance_history is awaited, otherwise updateWalletBalance returns
UpsertDone ==
    \E p \in Writers :
    /\ writes[p].pc = "upserting"
    /\ walletBalances' = Upsert(writes[p].walletId, writes[p].balance)
    /\ writes' = [writes EXCEPT ![p] =
                    IF Abs(writes[p].balance - writes[p].oldBalance) > Epsilon
                      THEN [@ EXCEPT !.pc = "history", !.stored = StoredBalance(writes[p].walletId)]
                      ELSE [NoWrite EXCEPT !.wallet = writes[p].wallet]]
    /\ UNCHANGED <<walletAddresses, balanceHistory, updates>>
    /\ UNCHANGED notPersist

\* The INSERT into balance_history has run and updateWalletBalance returns
HistoryDone ==
    \E p \in Writers :
    /\ writes[p].pc = "history"
    /\ balanceHistory' = Append(balanceHistory,
          [wallet_id |-> writes[p].walletId, denom |-> Denom,
           old_balance |-> writes[p].oldBalance, new_balance |-> writes[p].balance,
           change_type |-> IF writes[p].balance - writes[p].oldBalance > 0
                             THEN "increase" ELSE "decrease",
           stored |-> writes[p].stored])
    /\ writes' = [writes EXCEPT ![p] = [NoWrite EXCEPT !.wallet = writes[p].wallet]]
    /\ UNCHANGED <<walletAddresses, walletBalances, updates>>
    /\ UNCHANGED notPersist

---------------------------------------------------------------------------
(* Storage of alerts: the alert_history table                              *)
(*                                                                         *)
(* Time is in days, as the retention of cleanup() is.                      *)

\* cleanup: parseInt(process.env.METRICS_RETENTION_DAYS) || 30
RetentionDays == 30

\* The clock step between two statements on the table
DayStep == RetentionDays \div 2

UserIds == {1, 2}

\* The row saveAlert inserts: the columns of the INSERT and the defaults
AlertRow(id, alert, t) ==
    [id |-> id, alert |-> alert, created_at |-> t,
     is_acknowledged |-> FALSE, acknowledged_by |-> 0, acknowledged_at |-> 0]

\* A cleanup whose DELETE has no WHERE clause
Expired_All(row, t) == TRUE

\* WHERE created_at < datetime('now', '-30 days')
Expired(row, t) == row.created_at < t - RetentionDays

InitTable ==
    /\ alertTable = {}
    /\ alertSeq = 0
    /\ today = 0

\* db.saveAlert(alertData): INSERT INTO alert_history, the id is the next
\* AUTOINCREMENT value
SaveAlert ==
    \E alert \in Alerts :
    /\ alertSeq < MaxRows
    /\ alertSeq' = alertSeq + 1
    /\ alertTable' = alertTable \cup {AlertRow(alertSeq + 1, alert, today)}
    /\ UNCHANGED today
    /\ UNCHANGED notTable

\* db.acknowledgeAlert(alertId, userId): the UPDATE of the row of the id
AcknowledgeAlert ==
    \E alertId \in 1 .. MaxRows, userId \in UserIds :
    /\ alertTable' = {IF r.id = alertId
                        THEN [r EXCEPT !.is_acknowledged = TRUE, !.acknowledged_by = userId,
                                       !.acknowledged_at = today]
                        ELSE r : r \in alertTable}
    /\ UNCHANGED <<alertSeq, today>>
    /\ UNCHANGED notTable

\* db.cleanup(), run by the cron task of initializeApp: DELETE FROM
\* alert_history of the rows older than the retention
Cleanup ==
    /\ alertTable' = {r \in alertTable : ~Expired(r, today)}
    /\ UNCHANGED <<alertSeq, today>>
    /\ UNCHANGED notTable

\* Time passes
DayTick ==
    /\ today + DayStep <= MaxDayTicks * DayStep
    /\ today' = today + DayStep
    /\ UNCHANGED <<alertTable, alertSeq>>
    /\ UNCHANGED notTable

---------------------------------------------------------------------------
(* WalletMonitor: the low-balance alerts of a collection cycle             *)

\* this.refreshInterval * 1000, refreshInterval = WALLET_REFRESH_INTERVAL || 60
WalletRefreshInterval == 60000

\* The results of getLowBalanceAlerts: rows of distinct wallets, in any order
LowBalanceRows ==
    {<< >>} \cup {<<w>> : w \in Wallets}
            \cup {<<w, v>> : <<w, v>> \in {x \in Wallets \X Wallets : x[1] # x[2]}}

\* alertData of a row: the wallets are on different chains, so an alert key
\* (type and chain) stands for one wallet
LowBalanceAlert(w, severity) == Alert("low_balance", w[1], severity, "")

InitMonitor ==
    /\ monPc = "idle"
    /\ lowQueue = << >>
    /\ cycles = 0
    /\ lastWalletAlert = [w \in Wallets |-> 0]

\* The setInterval callback of start(): collectAllBalances() up to the answer
\* of db.getLowBalanceAlerts() in checkLowBalanceAlerts()
CheckLowBalanceAlerts ==
    \E rows \in LowBalanceRows :
    /\ monPc = "idle"
    /\ cycles < MaxCycles
    /\ cycles' = cycles + 1
    /\ now' = now + WalletRefreshInterval
    /\ lowQueue' = rows
    /\ monPc' = IF rows = << >> THEN "idle" ELSE "alerting"
    /\ UNCHANGED <<svc, brk, cyc, ev, lastCycleEnd, lastWalletAlert>>
    /\ UNCHANGED <<hvars, avars, rvars, gvars, mvars, bvars, pvars, tvars>>

\* The loop of checkLowBalanceAlerts for one row: db.saveAlert inserts the
\* row and resolves, this.broadcastAlert(alertData) follows (no send of it
\* throws); a rejected saveAlert ends the loop in the catch block
LowBalanceAlertSaved ==
    \E ok \in BOOLEAN, severity \in {"warning", "critical"} :
    LET w == Head(lowQueue) IN
    /\ monPc = "alerting"
    /\ IF ok
       THEN /\ alertSeq' = alertSeq + 1
            /\ alertTable' = alertTable \cup
                                {AlertRow(alertSeq + 1, LowBalanceAlert(w, severity), today)}
            /\ Broadcast({Unfiltered("wallet_alert")}, {})
            /\ lastWalletAlert' =
                  IF Eligible(Unfiltered("wallet_alert")) # {}
                  THEN [lastWalletAlert EXCEPT ![w] = now]
                  ELSE lastWalletAlert
            /\ lowQueue' = Tail(lowQueue)
            /\ monPc' = IF Tail(lowQueue) = << >> THEN "idle" ELSE "alerting"
       ELSE /\ lowQueue' = << >>
            /\ monPc' = "idle"
            /\ UNCHANGED <<alertSeq, alertTable, lastWalletAlert, hvars>>
    /\ UNCHANGED <<today, cycles>>
    /\ UNCHANGED <<cvars, avars, rvars, gvars, mvars, bvars, pvars>>

---------------------------------------------------------------------------
(* The specifications                                                      *)

\* The state after construction of the services
Init ==
    /\ InitCollect /\ InitHub /\ InitAlert /\ InitResolve /\ InitGate /\ InitMetrics
    /\ InitBatch /\ InitPersist /\ InitTable /\ InitMonitor

NextCollect ==
    \/ \E d \in TimeSteps : Tick(d)
    \/ Start
    \/ \E isReady \in BOOLEAN : GatingDone(isReady)
    \/ InstallInterval
    \/ TimerTick
    \/ ApiCollect
    \/ GetFormattedBalances
    \/ \E c \in Callers : HttpFail(c)
    \/ \E c \in Callers : HttpEmpty(c)
    \/ \E c \in Callers : HttpData(c)
    \/ \E c \in Callers : StrategySleepDone(c)
    \/ \E c \in Callers : BackoffDone(c)
    \/ \E c \in Callers : ProcessDone(c)

SpecCollect == Init /\ [][NextCollect]_vars

\* An HTTP request of a cycle is answered or fails
HttpAnswered == \E c \in Callers : HttpFail(c) \/ HttpEmpty(c) \/ HttpData(c)

\* A sleep of a cycle is over, or its processing is done
CycleStep == \E c \in Callers : StrategySleepDone(c) \/ BackoffDone(c) \/ ProcessDone(c)

NextStart ==
    \/ Start
    \/ BeginWait
    \/ ProbeDone
    \/ WaitSleepDone
    \/ InstallInterval
    \/ HttpAnswered
    \/ CycleStep

\* Every await of start() and of a collection cycle comes back: requests
\* have timeouts and sleeps end
SpecStart ==
    /\ Init /\ [][NextStart]_vars
    /\ WF_vars(BeginWait) /\ WF_vars(ProbeDone) /\ WF_vars(WaitSleepDone)
    /\ WF_vars(InstallInterval) /\ WF_vars(HttpAnswered) /\ WF_vars(CycleStep)

\* start() and stop() called in any order; start() is called when no earlier
\* call of it is still waiting
NextStop ==
    \/ Start
    \/ Stop
    \/ \E isReady \in BOOLEAN : GatingDone(isReady)
    \/ InstallInterval
    \/ TimerTick
    \/ HttpAnswered
    \/ CycleStep

SpecStop == Init /\ [][NextStop]_vars

NextHub ==
    \/ \E id \in ClientIds, role \in Roles : Connect(id, role)
    \/ \E id \in ClientIds : Close(id)
    \/ \E id \in ClientIds : SocketError(id)
    \/ \E id \in ClientIds, m \in Messages : Message(id, m[1], m[2])

SpecHub == Init /\ [][NextHub]_vars

NextCast ==
    \/ \E id \in ClientIds, role \in Roles : Connect(id, role)
    \/ \E id \in ClientIds : Close(id)
    \/ BeginClose
    \/ Subscribe
    \/ BroadcastAlert
    \/ BroadcastMetricsUpdate
    \/ BroadcastToRole

SpecCast == Init /\ [][NextCast]_vars

\* The hub with the broadcasts of the wallet services
NextPush ==
    \/ \E id \in ClientIds, role \in Roles : Connect(id, role)
    \/ \E id \in ClientIds : Close(id)
    \/ Subscribe
    \/ BroadcastAlert
    \/ BroadcastMetricsUpdate
    \/ BroadcastWalletAlert
    \/ BroadcastBalanceUpdate

SpecPush == Init /\ [][NextPush]_vars

\* The hub with WS_HEARTBEAT_INTERVAL = 90; every peer answers
NextSlowBeat ==
    \/ \E id \in ClientIds : Connect(id, "monitoring")
    \/ \E id \in ClientIds : Close(id)
    \/ Pong
    \/ SlowHubTick
    \/ SlowHeartbeat

SpecSlowBeat == Init /\ [][NextSlowBeat]_vars

NextMonitor ==
    \/ \E id \in ClientIds : Connect(id, "monitoring")
    \/ CheckLowBalanceAlerts
    \/ LowBalanceAlertSaved

SpecMonitor == Init /\ [][NextMonitor]_vars

NextHeartbeat ==
    \/ \E id \in ClientIds : Connect(id, "monitoring")
    \/ \E id \in ClientIds : Close(id)
    \/ Pong
    \/ GoSilent
    \/ HubTick
    \/ Heartbeat
    \/ BroadcastToRole

\* The timer fires when it is due, and time does not stand still
SpecHeartbeat ==
    Init /\ [][NextHeartbeat]_vars /\ WF_vars(HubTick) /\ WF_vars(Heartbeat)

NextMetrics ==
    \/ StartMetrics
    \/ CronFire
    \/ SourcesDone
    \/ CollectDone

SpecMetrics == Init /\ [][NextMetrics]_vars

AlertTick == \E d \in AlertTimeSteps : Tick(d)

NextBatch ==
    \/ BalancesFetched
    \/ BatchSettled
    \/ RateLimitDone
    \/ PersistOne
    \/ BatchesDone

SpecBatch == Init /\ [][NextBatch]_vars

NextPersist ==
    \/ BeginRecord
    \/ FindDone
    \/ CreateDone
    \/ ReadDone
    \/ UpsertDone
    \/ HistoryDone

SpecPersist == Init /\ [][NextPersist]_vars

NextTable ==
    \/ SaveAlert
    \/ AcknowledgeAlert
    \/ Cleanup
    \/ DayTick

SpecTable == Init /\ [][NextTable]_vars

NextAlert ==
    \/ AlertTick
    \/ ProcessAlert
    \/ SaveAlertDone
    \/ UsersDone
    \/ PostDone

SpecAlert == Init /\ [][NextAlert]_vars

NextResolve ==
    \/ GetTokenDecimals
    \/ DbGetDone
    \/ Chain1Done
    \/ Chain2Done
    \/ Chain3Done
    \/ DirectoryDone
    \/ SaveDone

SpecResolve == Init /\ [][NextResolve]_vars

NextGate ==
    \E user \in UserRows, alert \in GateAlerts, ok \in BOOLEAN : NotifyUser(user, alert, ok)

SpecGate == Init /\ [][NextGate]_vars

---------------------------------------------------------------------------
(* Claims about the collection orchestrator                                *)

\* A collection request made by caller c in this step (a call of
\* collectAndProcessBalances, or getFormattedBalances answering from the breaker)
RequestBy(c) == ev'.op \in {"call", "breaker"} /\ ev'.who = c

\* C1: while a collection cycle is in flight, any further collection request
\* returns an empty result in the same step, puts no request on the wire and
\* starts nothing; at no time are two cycles executing.
C1_SingleFlight ==
    /\ [](Cardinality({c \in Callers : InCycle(c)}) <= 1)
    /\ [][\A c \in Callers :
            (InFlight /\ RequestBy(c)) =>
                /\ ev'.ret \in {"empty", "cached"}
                /\ http' = http
                /\ cpc' = cpc]_vars

\* A timer tick was answered with [] while another caller's cycle is executing
C1_Witness ==
    /\ ev = Event("call", "timer", "empty")
    /\ \E c \in Callers \ {"timer"} : InCycle(c) /\ c \in http

\* C34: the in-flight flag is set only while a cycle is executing: every exit
\* path of a cycle (balances processed, no balance record, retries used up)
\* clears it, and a collection requested when no cycle is executing is
\* admitted, that is, it starts a cycle and puts a request on the wire.
C34_FlagClearedOnEveryExit ==
    /\ [](isCollecting => InFlight)
    /\ [][\A c \in Callers :
            (~InFlight /\ ev'.op = "call" /\ ev'.who = c) =>
                /\ ev'.ret = "none"
                /\ cpc'[c] = "http"
                /\ c \in http']_vars

\* C4: when every attempt of a cycle fails, the cycle returns [] without
\* throwing, the flag is cleared and nothing of the cycle is left executing;
\* the next timer tick then starts a fresh cycle.
C4_ExhaustedEndsIdle ==
    /\ [](ev.op = "exhausted" =>
            /\ ev.ret = "empty"
            /\ ~InCycle(ev.who)
            /\ ~isCollecting)
    /\ [](ev.ret # "threw")
    /\ [][(lastCycleEnd = "exhausted" /\ ~InFlight /\ RequestBy("timer")) =>
            /\ ev'.ret = "none"
            /\ cpc'["timer"] = "http"
            /\ "timer" \in http'
            /\ attempts'["timer"] = 1
            /\ retryCount'["timer"] = 0]_vars

\* After a cycle that used up its retries, a timer tick has started a new cycle
C4_Witness ==
    /\ lastCycleEnd = "exhausted"
    /\ ev = Event("call", "timer", "none")
    /\ cpc["timer"] = "http"
    /\ errorCount >= MaxRetries + 1

\* C5: a cycle makes at most maxRetries + 1 = 4 attempts; when the last of
\* them fails the cycle returns in that very step.
C5_BoundedAttempts ==
    /\ [](\A c \in Callers : attempts[c] <= MaxRetries + 1)
    /\ [][\A c \in Callers :
            (attempts[c] = MaxRetries + 1 /\ consecFails' = consecFails + 1
                /\ ev'.who = c) =>
                (cpc'[c] = "idle" /\ ev'.ret = "empty" /\ http' = {})]_vars

\* The last request of the fourth attempt is on the wire
C5_Witness ==
    \E c \in Callers :
        /\ attempts[c] = MaxRetries + 1
        /\ strategy[c] = NumTimeoutStrategies - 1
        /\ c \in http

\* C6 (as claimed): while the breaker is open, every collection request is
\* answered with cached/empty results and puts no request on the wire.
C6_NoCollectionWhileOpen ==
    [][\A c \in Callers :
        (IsCircuitBreakerOpen /\ RequestBy(c)) =>
            (ev'.ret \in {"empty", "cached"} /\ http' = http)]_vars

\* C7: the breaker is open exactly when at least 5 attempts have failed since
\* the last successful collection and the latest failure is less than 5
\* minutes old; a successful collection leaves it closed.
C7_BreakerOpenIff ==
    /\ IsCircuitBreakerOpen <=>
         (/\ consecFails >= FailureThreshold
          /\ lastFailAt >= 0
          /\ now - lastFailAt < TimeWindow)
    /\ ev.op \in {"success", "nodata"} => ~IsCircuitBreakerOpen

\* Five or more failures in a row, the window has elapsed: closed again
C7_Witness ==
    /\ consecFails >= FailureThreshold
    /\ now - lastFailAt >= TimeWindow
    /\ ~IsCircuitBreakerOpen

---------------------------------------------------------------------------
(* Claims about the alert manager                                          *)

\* C2 (as claimed): two alerts with the same dedup key submitted within 5
\* minutes of each other cause exactly one dispatch, also when the second is
\* submitted while the first is still being processed.
C2_OneDispatchPerWindow ==
    \A i, j \in 1 .. Len(dispatchLog) :
        (i < j /\ dispatchLog[i].key = dispatchLog[j].key) =>
            dispatchLog[j].at - dispatchLog[i].at >= DedupWindow

---------------------------------------------------------------------------
(* Claims about the WebSocket hub                                          *)

\* How many elements of sequence q satisfy Test
CountIn(q, Test(_)) == Cardinality({i \in 1 .. Len(q) : Test(q[i])})

\* The invocations for alert a that are past the await of db.saveAlert
PastSave(a) ==
    LET past == {f \in BagToSet(aframes) : f.alert = a /\ f.pc \in {"users", "posting"}}
        RECURSIVE Sum(_)
        Sum(S) == IF S = {} THEN 0
                  ELSE LET f == CHOOSE x \in S : TRUE
                       IN  CopiesIn(f, aframes) + Sum(S \ {f})
    IN  Sum(past)

\* Every invocation that notifies or has pushed has a row of its own
RowPerDispatch ==
    \A a \in Alerts :
        CountIn(alertRows, LAMBDA r : r = a)
            >= PastSave(a) + CountIn(dispatchLog, LAMBDA e : e.alert = a)

\* C11: the row of an alert is appended before any of its notifications is
\* sent and before its live push (every invocation past the save, and every
\* dispatch made, has a row of its own); when the append fails the
\* invocation returns false with nothing pushed and nothing remembered; and
\* rows are never removed, whatever the notification channels do.
C11_PersistBeforeDispatch ==
    [][/\ RowPerDispatch'
       /\ aev'.op \in {"post", "dispatched"}
            => \E i \in 1 .. Len(alertRows) : alertRows[i] = aev'.alert
       /\ (aev'.op = "failed" /\ aframes' # aframes)
            => /\ dispatchLog' = dispatchLog
               /\ alertHistory' = alertHistory
               /\ alertRows' = alertRows
       /\ Len(alertRows') >= Len(alertRows)
       /\ SubSeq(alertRows', 1, Len(alertRows)) = alertRows]_vars

\* Reached: an alert was pushed after the POST to every recipient failed,
\* and its row is in the history
C11_Witness ==
    /\ aev.op = "dispatched"
    /\ aev.last # 0
    /\ ~aev.delivered
    /\ \E i \in 1 .. Len(alertRows) : alertRows[i] = aev.alert

\* C38: processAlert suppresses an alert only when an alert of the same key
\* has been dispatched and that less than 5 minutes before; and an entry of
\* alertHistory is written only by an invocation that dispatches its alert,
\* never by one that fails or is suppressed.
C38_SuppressedOnlyAfterDispatch ==
    /\ [][(submitted' # submitted /\ aev'.op = "duplicate") =>
             \E n \in DOMAIN dispatchLog :
                /\ dispatchLog[n].key = GenerateAlertKey(aev'.alert)
                /\ dispatchLog[n].at <= now
                /\ now - dispatchLog[n].at < DedupWindow]_vars
    /\ [][\A k \in AlertKeys :
             alertHistory'[k] # alertHistory[k] =>
                /\ aev'.op = "dispatched"
                /\ aev'.ret = "true"
                /\ GenerateAlertKey(aev'.alert) = k
                /\ Len(dispatchLog') = Len(dispatchLog) + 1
                /\ dispatchLog'[Len(dispatchLog')].key = k]_vars

\* Reached: an alert was suppressed in the last millisecond of the window of
\* the one dispatch of its key
C38_Witness ==
    /\ aev.op = "duplicate"
    /\ Len(dispatchLog) = 1
    /\ dispatchLog[1].key = GenerateAlertKey(aev.alert)
    /\ now - dispatchLog[1].at = DedupWindow - 1

\* C25: when the POST for a user of an invocation has answered or failed, the
\* invocation goes on with a POST for the next user who passes the gate,
\* whatever the outcome was; after the last such user it pushes the alert to
\* the hub and records the dispatch.  A failed POST ends no invocation and
\* touches no other invocation.
C25_PostFailureIsolated ==
    [][\A f \in BagToSet(aframes) :
          (f.pc = "posting" /\ CopiesIn(f, aframes') < CopiesIn(f, aframes)) =>
             LET later == {j \in f.i + 1 .. Len(ActiveUsers) :
                               ShouldSendAlert(f.alert, ActiveUsers[j])}
             IN  /\ later # {} =>
                       \E g \in BagToSet(aframes') :
                          /\ CopiesIn(g, aframes') > CopiesIn(g, aframes)
                          /\ g.pc = "posting" /\ g.alert = f.alert /\ g.start = f.start
                          /\ g.i \in later /\ \A j \in later : g.i <= j
                          /\ aev'.op = "post"
                 /\ later = {} =>
                       /\ aev'.op = "dispatched" /\ aev'.alert = f.alert
                       /\ Len(dispatchLog') = Len(dispatchLog) + 1
                       /\ dispatchLog'[Len(dispatchLog')].alert = f.alert
                 /\ BagCardinality(aframes') >= BagCardinality(aframes) - 1]_vars

\* Reached: the POST for the first user failed and the POST for the second
\* user, who passes the gate too, is in flight
C25_Witness ==
    /\ aev.op = "post" /\ aev.last = 2 /\ ~aev.delivered
    /\ ShouldSendAlert(aev.alert, ActiveUsers[1])
    /\ \E f \in BagToSet(aframes) : f.pc = "posting" /\ f.i = 2 /\ f.alert = aev.alert

\* C12: an alert suppressed as a duplicate is appended to the history all
\* the same (the step that suppresses it adds a row).
C12_DuplicatePersisted ==
    [][(submitted' # submitted /\ aev'.op = "duplicate")
          => Len(alertRows') = Len(alertRows) + 1]_vars

\* C3: a subscribe request for the admin-only channel from a non-admin
\* connection is answered with an error frame and leaves its subscription set
\* as it was; at all times only admin connections hold the admin-only channel.
C3_AdminChannel ==
    /\ [](\A id \in Registered :
            "system_status" \in clients[id].subscriptions => clients[id].role = "admin")
    /\ [][\A id \in Registered :
            (/\ clients[id].role # "admin"
             /\ received' = [from |-> id, type |-> "subscribe", channel |-> "system_status"])
            => /\ \E f \in sent' : f.to = id /\ f.frame.type = "error"
               /\ id \in DOMAIN clients'
               /\ clients'[id].subscriptions = clients[id].subscriptions]_vars

\* A monitoring connection asked for system_status and got the rejection,
\* while an admin connection is subscribed to it
C3_Witness ==
    \E id \in Registered, a \in Registered :
        /\ clients[id].role = "monitoring"
        /\ received = [from |-> id, type |-> "subscribe", channel |-> "system_status"]
        /\ sent = {[to |-> id,
                     frame |-> Frame("error", "", "Insufficient permissions for this channel")]}
        /\ clients[a].role = "admin"
        /\ "system_status" \in clients[a].subscriptions

---------------------------------------------------------------------------
(* Claims about the retries of a cycle, under SpecCollect                  *)

\* C32 (as claimed): when a request has failed for an authorization reason
\* the cycle neither sleeps towards the next timeout budget nor backs off
\* towards another attempt.
C32_AuthNotRetried ==
    [][\A c \in Callers :
          (c \in http /\ c \notin http' /\ ev'.who = c /\ ev'.ret = "unauthorized") =>
              cpc'[c] \notin {"stratSleep", "backoff"}]_vars

\* C40 (as claimed): a logical fetch goes on to its next timeout budget only
\* after a timeout; a refused connection, an HTTP status or a malformed body
\* ends the logical fetch.
C40_EscalationOnlyOnTimeout ==
    [][\A c \in Callers :
          (c \in http /\ c \notin http' /\ cpc'[c] = "stratSleep") =>
              ev'.ret = "timeout"]_vars

\* C22: when a cycle begins the sleep before a retry, the delay is at most
\* the cap and is greater than the delay before the retry that preceded it,
\* unless that one had reached the cap; and so it is for every retry index
\* up to MaxBackoffSteps of the delay formula.
C22_BackoffGrows ==
    [][/\ \A c \in Callers :
            (cpc'[c] = "backoff" /\ cpc[c] # "backoff") =>
                /\ slept'[c] <= MaxBackoffInterval * 1000
                /\ slept'[c] > slept[c] \/ slept[c] = MaxBackoffInterval * 1000
       /\ \A n \in 1 .. MaxBackoffSteps :
            /\ BackoffTime(n) <= MaxBackoffInterval * 1000
            /\ BackoffTime(n) < BackoffTime(n + 1)
                  \/ BackoffTime(n) = MaxBackoffInterval * 1000]_vars

\* Reached: a cycle sleeps 4000 ms before its third retry
C22_Witness ==
    \E c \in Callers : cpc[c] = "backoff" /\ retryCount[c] = 3 /\ slept[c] = 4000

\* C23: a request on the wire was issued with the budget 1x, 2x or 3x the
\* base timeout according to its position in the logical fetch, positions
\* are taken in that order and there are three of them; the retry count of
\* the cycle grows by one, and only when the third request of a logical
\* fetch has failed, and a failure of the first or second request leaves it
\* as it is.
C23_TimeoutEscalation ==
    [][\A c \in Callers :
          /\ c \in http' =>
                /\ strategy'[c] \in 0 .. 2
                /\ fetch'[c].budget = RequestTimeout * (strategy'[c] + 1)
          /\ strategy'[c] # strategy[c] =>
                strategy'[c] = strategy[c] + 1 \/ strategy'[c] = 0
          /\ retryCount'[c] # retryCount[c] =>
                \/ retryCount'[c] = 0
                \/ /\ retryCount'[c] = retryCount[c] + 1
                   /\ c \in http /\ c \notin http'
                   /\ strategy[c] = 2
          /\ (c \in http /\ c \notin http' /\ cpc'[c] = "stratSleep") =>
                /\ strategy[c] < 2
                /\ retryCount'[c] = retryCount[c]
                /\ attempts'[c] = attempts[c]
          /\ cpc'[c] \in {"http", "stratSleep"} => attempts'[c] = retryCount'[c] + 1]_vars

\* Reached: the third request of a logical fetch is on the wire with three
\* times the base timeout, in the first attempt of its cycle
C23_Witness ==
    \E c \in http :
        /\ strategy[c] = 2
        /\ fetch[c].budget = 3 * RequestTimeout
        /\ requestTimeout = 3 * RequestTimeout
        /\ retryCount[c] = 0

---------------------------------------------------------------------------
(* Claims about the batches of a cycle, under SpecBatch                    *)

\* C24: every record whose processing or persistence failed is in the log of
\* per-item failures; when the cycle returns, every record of every batch
\* whose processing did not fail is in the cycle's result, and every record
\* of the result whose persistence did not fail has been persisted; during
\* the cycle the same holds of the batches settled and of the turns of the
\* persistence loop taken so far.
C24_FailuresIsolated ==
    LET settledUpTo == IF bpc \in {"idle", "batch"} THEN bi ELSE balances
        shouldBe == {r \in 1 .. settledUpTo : r \notin Failed("process")}
        turned == {processedBalances[k] : k \in 1 .. (IF bk = 0 THEN 0 ELSE bk - 1)}
    IN  /\ bpc \in {"batch", "persist", "done"} =>
              /\ Range(processedBalances) = shouldBe
              /\ Len(processedBalances) = Cardinality(shouldBe)
        /\ bpc = "rateSleep" =>
              Range(processedBalances) = {r \in 1 .. bi + BatchSize : r \notin Failed("process")}
        /\ bpc \in {"persist", "done"} =>
              /\ persisted = turned \ Failed("persist")
              /\ Failed("persist") \subseteq turned
        /\ bpc = "done" => bk = Len(processedBalances) + 1
        /\ Failed("process") \cap Range(processedBalances) = {}

\* Reached: a cycle of two batches has returned; the first record failed in
\* processing, the second in persistence, and the others of the first batch
\* and the record of the second batch were processed and persisted
C24_Witness ==
    /\ bpc = "done"
    /\ balances > BatchSize
    /\ Failed("process") = {1}
    /\ Failed("persist") = {2}
    /\ persisted = (1 .. balances) \ {1, 2}
    /\ Range(processedBalances) = (1 .. balances) \ {1}

---------------------------------------------------------------------------
(* Claims about the storage of wallets and balances, under SpecPersist     *)

\* The ids of the rows of table t that are rows of the wallet
RowsOf(t, wallet) == {k \in 1 .. Len(t) : t[k] = WalletRow(wallet)}

\* C26: no two rows of wallet_addresses have the same chain, address and
\* kind; a step adds at most one row; and when a writer that found no row
\* for the wallet of its record has had its INSERT run, the table holds
\* exactly one row of that wallet, whether its own or that of a writer that
\* was creating the same wallet at the same time.
C26_OneWalletRecord ==
        [][/\ \A w \in Wallets : Cardinality(RowsOf(walletAddresses', w)) <= 1
           /\ Len(walletAddresses') <= Len(walletAddresses) + 1
           /\ \A p \in Writers :
                 (writes[p].pc = "creating" /\ writes'[p].pc # "creating") =>
                     /\ Cardinality(RowsOf(walletAddresses', writes[p].wallet)) = 1
                     /\ RowsOf(walletAddresses, writes[p].wallet) = {} =>
                           /\ Len(walletAddresses') = Len(walletAddresses) + 1
                           /\ writes'[p].walletId \in RowsOf(walletAddresses', writes[p].wallet)]_vars

\* Reached: two writers found no row of the same wallet, the INSERT of one
\* has added the row and the INSERT of the other has been rejected
C26_Witness ==
    \E p, q \in Writers :
        /\ p # q
        /\ writes[p].pc = "reading" /\ writes[p].walletId = 1
        /\ writes[q].pc = "idle" /\ writes[q].wallet = writes[p].wallet
        /\ Len(walletAddresses) = 1
        /\ walletBalances = {}
        /\ updates = 2

\* C27 (as claimed): the write of an update is followed by a history entry
\* exactly when the new value differs by more than the epsilon from the
\* value the table held when the write ran (0 without a row), and the entry
\* is an increase exactly when the new value is the larger of the two.
C27_HistoryIffChanged ==
    [][\A p \in Writers :
          /\ (writes[p].pc = "upserting" /\ writes'[p].pc # "upserting") =>
                (writes'[p].pc = "history"
                    <=> Abs(writes[p].balance - StoredBalance(writes[p].walletId)) > Epsilon)
          /\ (writes[p].pc = "history" /\ writes'[p].pc # "history") =>
                LET e == balanceHistory'[Len(balanceHistory')]
                IN  e.change_type = "increase" <=> e.new_balance > e.stored]_vars

\* C28 (as claimed): the write of a value that the table already holds for
\* the wallet and denom leaves exactly one row of them, holding that value,
\* and is followed by no history entry.
C28_RepeatedObservation ==
    [][\A p \in Writers :
          (/\ writes[p].pc = "upserting" /\ writes'[p].pc # "upserting"
           /\ BalanceRows(writes[p].walletId) # {}
           /\ StoredBalance(writes[p].walletId) = writes[p].balance) =>
              /\ writes'[p].pc # "history"
              /\ \A id \in 1 .. Len(walletAddresses) :
                    \A r, s \in {t \in walletBalances' : t.wallet_id = id} : r = s
              /\ \E r \in walletBalances' :
                    r.wallet_id = writes[p].walletId /\ r.balance = writes[p].balance]_vars

---------------------------------------------------------------------------
(* Claims about the alert_history table, under SpecTable                   *)

---------------------------------------------------------------------------
(* Claims about the low-balance alerts, under SpecMonitor                  *)

\* C37: two wallet_alert messages for the same wallet that are sent to live
\* connections are at least the deduplication window of 5 minutes apart: a
\* balance that stays low is not pushed again by the next cycle.
C37_WalletAlertDeduplicated ==
    [][\A w \in Wallets :
          (lastWalletAlert[w] # 0 /\ lastWalletAlert'[w] # lastWalletAlert[w]) =>
              lastWalletAlert'[w] - lastWalletAlert[w] >= DedupWindow]_vars

---------------------------------------------------------------------------
(* Claims about start(), under SpecStart                                   *)

---------------------------------------------------------------------------
(* Claims about stop(), under SpecStop                                     *)

\* C35: from the return of stop() to the next call of start(), that is while
\* isRunning is false, the timer starts no collection cycle, whatever the
\* order of start() and stop(), stop() during an await of start() included.
C35_NoTimerCycleAfterStop ==
    [][(~isRunning) => ~(cpc["timer"] = "idle" /\ cpc'["timer"] = "http")]_vars

---------------------------------------------------------------------------
(* Claims about the broadcasts of the hub, under SpecCast                  *)

\* The frame of broadcast part p is among the frames sent to client id
Got(id, p, frames) == \E f \in frames : f.to = id /\ f.frame.type = p.type

\* C15: a message broadcast to target channels is sent to every registered
\* connection whose socket is open, whose subscription set holds one of the
\* target channels and whose send does not throw; and every open socket is a
\* registered connection.
C15_DeliveredToSubscribers ==
    [][/\ \A p \in cast'.parts :
            p.targets # {} =>
                \A id \in Registered :
                    (/\ id \in sockets /\ id \notin closing
                     /\ clients[id].subscriptions \cap p.targets # {}
                     /\ id \notin cast'.failed)
                    => Got(id, p, sent')
       /\ \A id \in sockets' : id \notin closing' => id \in DOMAIN clients']_vars

\* Reached: a metrics update went to a connection subscribed to chain_updates
\* only, and not to a registered connection without a target channel
C15_Witness ==
    \E p \in cast.parts, id \in Registered, other \in Registered :
        /\ p.targets = {"metrics", "chain_updates"}
        /\ clients[id].subscriptions = {"chain_updates"}
        /\ Got(id, p, sent)
        /\ Open(other)
        /\ ~Got(other, p, sent)

\* C16: a broadcast for role R is sent only to connections whose role is R
\* or admin.
C16_RoleScoped ==
    [][\A p \in cast'.parts :
          p.role # "" =>
              \A f \in sent' :
                  f.frame.type = p.type
                      => /\ f.to \in Registered
                         /\ clients[f.to].role \in {p.role, "admin"}]_vars

\* Reached: a broadcast for role admin went to an admin connection while an
\* open monitoring connection got nothing of it
C16_Witness ==
    \E p \in cast.parts, a \in Registered, m \in Registered :
        /\ p.role = "admin"
        /\ clients[a].role = "admin"
        /\ Got(a, p, sent)
        /\ clients[m].role = "monitoring"
        /\ Open(m)
        /\ ~Got(m, p, sent)

\* C36: a pushed event is sent to a connection only if the connection is
\* subscribed to one of the event's target channels or is selected by the
\* event's role filter; a connection that is subscribed to nothing is sent
\* no channel event.  Checked under SpecPush.
C36_OnlySubscribersReceive ==
    [][\A f \in sent' : \A p \in cast'.parts :
          f.frame.type = p.type =>
              /\ f.to \in Registered
              /\ \/ clients[f.to].subscriptions \cap p.targets # {}
                 \/ p.role # "" /\ clients[f.to].role \in {p.role, "admin"}]_vars

\* C17: when the send to a connection throws during a broadcast, every other
\* open connection that passes the filter is sent the message all the same.
C17_FailureIsolated ==
    [][cast'.failed # {} =>
          \A p \in cast'.parts, id \in Registered :
              (/\ id \in sockets /\ id \notin closing
               /\ id \notin cast'.failed
               /\ IF p.role # "" THEN clients[id].role \in {p.role, "admin"}
                  ELSE clients[id].subscriptions \cap p.targets # {})
              => Got(id, p, sent')]_vars

\* Reached: the send to the first connection threw and the second connection
\* was sent the message
C17_Witness ==
    \E p \in cast.parts, id \in Registered :
        /\ cast.failed # {}
        /\ \A b \in cast.failed : b < id
        /\ Got(id, p, sent)

\* C18: a connection whose send throws during a broadcast is removed from
\* the registry by that broadcast.
C18_FailedSendPruned ==
    [][\A id \in cast'.failed : id \notin DOMAIN clients']_vars

---------------------------------------------------------------------------
(* Claims about the heartbeat of the hub, under SpecHeartbeat              *)

\* C19: a registered connection whose peer has stopped answering and whose
\* last pong is more than 60 s old is eventually out of the registry; the
\* heartbeat terminates and deletes every connection whose last pong is more
\* than 60 s old and no other; and a broadcast is sent to members of the
\* registry only.
C19_StaleRemoved ==
    /\ \A id \in ClientIds :
          (id \in Registered /\ id \in silent /\ now - clients[id].lastPing > 60000)
              ~> (id \notin Registered)
    /\ [][/\ beatAt' # beatAt =>
                \A id \in Registered :
                    IF now - clients[id].lastPing > 60000
                    THEN id \notin DOMAIN clients' /\ id \notin sockets'
                    ELSE id \in DOMAIN clients' /\ (id \in sockets <=> id \in sockets')
          /\ cast'.parts # {} => \A f \in sent' : f.to \in Registered]_vars

\* Reached: the heartbeat has just removed a silent connection, and a
\* connection whose last pong is exactly 60 s old stays
C19_Witness ==
    /\ beatAt = now
    /\ \E id \in ClientIds : id \notin Registered /\ id \notin sockets
    /\ \E id \in Registered : now - clients[id].lastPing = 60000
    /\ \E f \in sent : f.frame.type = "ping"

\* C39: whatever the configured period of the heartbeat, a firing of the
\* heartbeat leaves in the registry, with its socket, every connection that
\* has answered the probe of the firing before (its last pong is not older
\* than that firing).  Checked under SpecSlowBeat, a period of 90 s.
C39_PromptNeverTerminated ==
    [][beatAt' # beatAt =>
          \A id \in Registered :
              (id \in sockets /\ clients[id].lastPing >= beatAt) =>
                  id \in DOMAIN clients' /\ id \in sockets']_vars

---------------------------------------------------------------------------
(* Claims about the metrics collector, under SpecMetrics                   *)

\* C31 (as claimed): a collection of a source begins at least the source's
\* refresh_interval after the collection of the source before it began,
\* whether that one succeeded or failed.
C31_PollCadence ==
    [][\A s \in SourceIds :
          (mev'.op = "collect" /\ mev'.source = s /\ pollStart[s] # 0) =>
              pollStart'[s] - pollStart[s] >= RefreshSeconds[s] * 1000]_vars

\* C20: of every metrics source at most one collection is in flight at any
\* time.
C20_SourceSingleFlight == \A s \in SourceIds : SourceInFlight(s) <= 1

---------------------------------------------------------------------------
(* Claims about the decimal resolver, under SpecResolve                    *)

C9_WriteOnce ==
    [][\A k \in Keys : tokenDecimals[k] # Null =>
          /\ tokenDecimals'[k] = tokenDecimals[k]
          /\ ~(rev'.op = "saved" /\ rev'.key = k)]_vars

\* C9, amended: an entry changes only by the single write of a resolution of
\* that key whose own read-check returned no entry and which then computed
\* the value over the network; the value written is the one that resolution
\* returns, and a resolution that found an entry writes nothing.
C9_WriteAfterOwnMiss ==
    [][/\ \A k \in Keys : tokenDecimals'[k] # tokenDecimals[k] =>
             /\ rev'.op = "saved" /\ rev'.key = k /\ rev'.net
             /\ tokenDecimals'[k] = rev'.ret
       /\ rev'.op = "hit" => tokenDecimals' = tokenDecimals]_vars

\* An entry is overwritten with another value while a second resolution of
\* the same key is about to write too
C9_Witness ==
    /\ rev.op = "saved" /\ rev.prev # Null /\ rev.prev # rev.ret
    /\ tokenDecimals[rev.key] = rev.ret
    /\ \E c \in BagToSet(calls) : c.pc = "save" /\ c.key = rev.key

\* The order of the tiers for a key: from each place an invocation waits at,
\* the places it may wait at next
TierOrder(key) ==
    {<<"dbGet", IF key[1] \in ConfiguredChains THEN "chain1" ELSE "directory">>,
     <<"chain1", "chain2">>, <<"chain2", "chain3">>, <<"chain3", "directory">>,
     <<"chain1", "save">>, <<"chain2", "save">>, <<"chain3", "save">>,
     <<"directory", "save">>}

\* C29: an invocation waits for the cache first, then for the chain API's
\* metadata, listing and supply requests (when the chain has an endpoint),
\* then for the directory, and moves on only in that order: a frame that a
\* step brings about is a new invocation waiting for the cache, or takes the
\* place of a frame of its key at the same place or at the place before it in
\* the order.  While it waits for a tier it has no value yet, it has made no
\* network call while it waits for the cache, once it has a value it waits
\* only for the save, and a return on a cache hit has made no network call.
C29_TierOrder ==
    [][/\ \A d \in BagToSet(calls') :
             CopiesIn(d, calls') > CopiesIn(d, calls) =>
                \/ /\ d.pc = "dbGet"
                   /\ BagCardinality(calls') = BagCardinality(calls) + 1
                \/ \E c \in BagToSet(calls) :
                      /\ CopiesIn(c, calls) > CopiesIn(c, calls')
                      /\ c.key = d.key
                      /\ \/ <<c.pc, d.pc>> \in TierOrder(d.key)
                         \/ /\ c.pc = d.pc
                            /\ BagCardinality(calls') = BagCardinality(calls) - 1
       /\ \A c \in BagToSet(calls') :
             /\ c.pc = "dbGet" => ~c.net /\ c.decimals = Null
             /\ c.pc \in {"chain1", "chain2", "chain3", "directory"} => c.decimals = Null
             /\ c.pc = "save" => c.decimals # Null /\ c.net
       /\ rev'.op = "hit" => ~rev'.net
       /\ rev'.op \in {"saved", "unsaved"} => rev'.net]_vars

\* Reached: for a chain with an endpoint, the three requests of the chain API
\* have brought no value and the invocation waits for the directory
C29_Witness ==
    \E c \in BagToSet(calls) : c.pc = "directory" /\ c.key[1] \in ConfiguredChains

\* C30 (as claimed): for an invocation that waits for the directory, after
\* the cache and the chain API brought no value, whenever the directory's
\* request fails or its assetlist has no asset for the denom, the value the
\* invocation goes on to save and return is that of the heuristic.
C30_HeuristicWhenUnresolved ==
    \A c \in BagToSet(calls) :
        c.pc = "directory" =>
            \A resp \in {r \in DirectoryResponses(c.key[2]) : r.kind \in {"fail", "none"}} :
                DirectoryDecimals(resp, c.key[2]) = GetFallbackDecimals(c.key[2])

\* C10 as stated: every call of resolve returns an integer >= 0 (the model has
\* no throwing return: every helper catches its own errors).
C10_NonNegativeInteger ==
    rev.op \in Returns => (rev.ret.t = "num" /\ rev.ret.n >= 0)

---------------------------------------------------------------------------
(* Claims about the notification gate, under SpecGate                      *)

\* The four gates of the specification, stated on the stored settings
GateEnabled(user) ==
    user.is_enabled /\ user.gotify_url # "" /\ user.gotify_token # ""
GateSeverity(alert, user) ==
    SeverityLevels[alert.severity]
        >= SeverityLevels[MinSeverity(ParseThresholds(user.alert_thresholds))]
GateType(alert, user) ==
    ~(user.alert_thresholds.json = "object"
      /\ alert.type \in user.alert_thresholds.disabledTypes)
GateChain(alert, user) ==
    ~(user.alert_thresholds.json = "object"
      /\ alert.chain \in user.alert_thresholds.disabledChains)

\* C13: the loop of sendNotifications posts an alert to a user exactly when
\* the four gates pass: notifications enabled with URL and token, severity at
\* least the user's minimum, type not disabled, chain not disabled.
C13_FourGates ==
    gev.alert # NoAlert =>
        (gev.posted <=> /\ GateEnabled(gev.user)
                        /\ GateSeverity(gev.alert, gev.user)
                        /\ GateType(gev.alert, gev.user)
                        /\ GateChain(gev.alert, gev.user))

\* A critical alert of a chain is withheld from an enabled user only because
\* the user disabled that chain
C13_Witness ==
    /\ gev.alert.severity = "critical" /\ gev.alert.chain = "osmosis-1"
    /\ GateEnabled(gev.user) /\ GateType(gev.alert, gev.user)
    /\ ~GateChain(gev.alert, gev.user)
    /\ ~gev.posted

\* C14: a user whose minimum severity is warning is never posted an info
\* alert, and the severity gate never withholds a warning or critical alert
\* from that user: such an alert is posted whenever the other gates pass.
C14_MinSeverityWarning ==
    (gev.alert # NoAlert
       /\ gev.user.alert_thresholds.json = "object"
       /\ gev.user.alert_thresholds.minSeverity = "warning") =>
        /\ gev.alert.severity = "info" => ~gev.posted
        /\ gev.alert.severity \in {"warning", "critical"} =>
              (gev.posted <=> /\ GateEnabled(gev.user)
                              /\ GateType(gev.alert, gev.user)
                              /\ GateChain(gev.alert, gev.user))

\* A user with minSeverity warning is posted a warning alert
C14_Witness ==
    /\ gev.user.alert_thresholds.json = "object"
    /\ gev.user.alert_thresholds.minSeverity = "warning"
    /\ gev.alert.severity = "warning"
    /\ gev.posted

===========================================================================
